---- MODULE Spec2Model ----
(***************************************************************************)
(* KPI dashboard: the indicator registry and the aggregators of            *)
(* metrics.py, and the cards / details computations of app.py.             *)
(*                                                                         *)
(* A DataFrame is a record [cols, rows]: the set of its column names and   *)
(* the sequence of its rows, each row a function from the column names to  *)
(* cells.  A cell is a record [t, n, d]:                                   *)
(*   t = "num"   the number n/d (d > 0, lowest terms)                      *)
(*   t = "nan"   NaN / pd.NA, the missing marker                           *)
(*   t = "inf"   +inf (n = 1) or -inf (n = -1)                             *)
(*   t = "txt"   a text cell that parses neither as number nor as date     *)
(*   t = "date"  the calendar day number n (a Timestamp at midnight)       *)
(*   t = "nat"   NaT                                                       *)
(*   t = "month" the period string 'YYYY-MM' of month number n             *)
(*   t = "natstr" the string 'NaT' (a NaT period cast to str)              *)
(*   t = "ymd"   the string 'YYYY-MM-DD' of day d of month number n        *)
(*   t = "int"   the integer n of a column of integer dtype                *)
(* Text columns (dept, type, ...) hold sequences of characters.            *)
(* Floating point results are modelled by exact rationals together with    *)
(* the IEEE special values, which is what decides the claims checked here. *)
(***************************************************************************)
EXTENDS Integers, Sequences, FiniteSets, TLC

VARIABLES
    KPI_FUNCTIONS,  \* metrics.KPI_FUNCTIONS: registered name -> aggregator
    df,             \* the dataset handed to the operation (a loaded CSV)
    start_date,     \* sidebar "Start Date" (a day number)
    end_date,       \* sidebar "End Date" (a day number)
    call,           \* the operation performed last: [op, name]
    result,         \* what it returned or raised
    csv,            \* the file data/<key>.csv the append form writes
    field_inputs,   \* the append form's widget values, as submitted
    run             \* the run of the dashboard script: its position and its locals

vars == <<KPI_FUNCTIONS, df, start_date, end_date, call, result, csv, field_inputs, run>>

----------------------------------------------------------------------------
(* Cells and float arithmetic *)

Abs(x) == IF x < 0 THEN 0 - x ELSE x

RECURSIVE GCD(_, _)
GCD(a, b) == IF b = 0 THEN a ELSE GCD(b, a % b)

\* the number n/d in lowest terms with a positive denominator (d # 0)
Frac(n, d) ==
    LET g == GCD(Abs(n), Abs(d))
        s == IF d < 0 THEN 0 - 1 ELSE 1
    IN  [t |-> "num", n |-> (s * n) \div g, d |-> (s * d) \div g]

Num(n) == [t |-> "num", n |-> n, d |-> 1]
NaN == [t |-> "nan", n |-> 0, d |-> 1]
PInf == [t |-> "inf", n |-> 1, d |-> 1]
NInf == [t |-> "inf", n |-> 0 - 1, d |-> 1]
Txt == [t |-> "txt", n |-> 0, d |-> 1]
Date(n) == [t |-> "date", n |-> n, d |-> 1]
NaT == [t |-> "nat", n |-> 0, d |-> 1]
Month(n) == [t |-> "month", n |-> n, d |-> 1]
NaTStr == [t |-> "natstr", n |-> 0, d |-> 1]

IsNum(v) == v.t = "num"
IsInf(v) == v.t = "inf"
IsNaN(v) == v.t = "nan"
Sign(v) == IF v.n > 0 THEN 1 ELSE IF v.n < 0 THEN 0 - 1 ELSE 0
InfOf(s) == IF s > 0 THEN PInf ELSE NInf

\* float addition
FAdd(a, b) ==
    IF IsNaN(a) \/ IsNaN(b) THEN NaN
    ELSE IF IsInf(a) /\ IsInf(b) THEN (IF a.n = b.n THEN a ELSE NaN)
    ELSE IF IsInf(a) THEN a
    ELSE IF IsInf(b) THEN b
    ELSE Frac(a.n * b.d + b.n * a.d, a.d * b.d)

FNeg(a) == IF IsNaN(a) THEN NaN ELSE [a EXCEPT !.n = 0 - a.n]

FSub(a, b) == FAdd(a, FNeg(b))

\* float multiplication
FMul(a, b) ==
    IF IsNaN(a) \/ IsNaN(b) THEN NaN
    ELSE IF IsInf(a) \/ IsInf(b)
         THEN (IF Sign(a) * Sign(b) = 0 THEN NaN ELSE InfOf(Sign(a) * Sign(b)))
    ELSE Frac(a.n * b.n, a.d * b.d)

\* float division as numpy / pandas do it: x/0 is +-inf, 0/0 is NaN, no error
FDiv(a, b) ==
    IF IsNaN(a) \/ IsNaN(b) THEN NaN
    ELSE IF IsInf(a) /\ IsInf(b) THEN NaN
    ELSE IF IsInf(a) THEN InfOf(a.n * (IF b.n < 0 THEN 0 - 1 ELSE 1))
    ELSE IF IsInf(b) THEN Num(0)
    ELSE IF b.n = 0 THEN (IF a.n = 0 THEN NaN ELSE InfOf(a.n))
    ELSE Frac(a.n * b.d, a.d * b.n)

\* a > b on floats: False whenever an operand is NaN
FGt(a, b) ==
    IF IsNaN(a) \/ IsNaN(b) THEN FALSE
    ELSE IF IsInf(a) THEN a.n = 1 /\ ~(IsInf(b) /\ b.n = 1)
    ELSE IF IsInf(b) THEN b.n = 0 - 1
    ELSE a.n * b.d > b.n * a.d

----------------------------------------------------------------------------
(* Bounds of the model *)

\* every month of the model calendar has this many days
DaysPerMonth == 3
\* months of the model calendar: 0 .. MaxMonth
MaxMonth == 1
\* rows of a dataset handed to an aggregator
MaxRows == 2
\* the project and worklog files hold days 0 .. MaxDay, the sidebar range too
MaxDay == 4
\* rows of a project file
MaxProjects == 1

Days == 0 .. ((MaxMonth + 1) * DaysPerMonth - 1)
Months == 0 .. MaxMonth

----------------------------------------------------------------------------
(* pandas helpers *)

\* pd.to_numeric(series, errors="coerce"), cell by cell
to_numeric(v) == IF v.t \in {"num", "inf"} THEN v ELSE NaN

\* pd.to_datetime(series, errors="coerce"), cell by cell
to_datetime(v) ==
    IF v.t = "date" THEN v
    ELSE IF v.t = "month" THEN Date(v.n * DaysPerMonth)
    ELSE IF v.t = "ymd" THEN Date(v.n * DaysPerMonth + v.d - 1)
    ELSE NaT

\* Timestamp -> first day of its month (NaT stays NaT)
month_start(v) == IF v.t = "date" THEN Date((v.n \div DaysPerMonth) * DaysPerMonth) ELSE NaT

\* series.dt.to_period("M").astype(str): 'YYYY-MM', and 'NaT' for NaT
to_period_M_str(v) == IF v.t = "date" THEN Month(v.n \div DaysPerMonth) ELSE NaTStr

\* series.dt.to_period("M").astype("datetime64[ns]")
to_period_M_datetime(v) == month_start(v)

\* a value pandas treats as null (dropped as a group key, skipped by sum / mean)
isna(v) == v.t \in {"nan", "nat"}

\* the characters text cells are made of, in their sort order
Alphabet ==
    <<" ", "A", "B", "C", "E", "G", "I", "K", "O", "R", "T", "U", "W",
      "b", "c", "e", "g", "i", "k", "o", "p", "r", "t", "u">>

CharOrd(c) == CHOOSE i \in 1 .. Len(Alphabet) : Alphabet[i] = c

\* position of a group key in the sorted order of the keys (text keys by
\* their first character, which tells the keys of the model apart)
KeyOrd(v) ==
    CASE v.t = "date" -> v.n
      [] v.t = "str" -> IF v.s = <<>> THEN 0 ELSE CharOrd(v.s[1])
      [] v.t = "month" -> v.n * DaysPerMonth
      [] v.t = "num" -> v.n
      [] v.t = "natstr" -> (MaxMonth + 2) * DaysPerMonth
      [] OTHER -> (MaxMonth + 3) * DaysPerMonth

RECURSIVE SortKeys(_)
SortKeys(S) ==
    IF S = {} THEN <<>>
    ELSE LET k == CHOOSE x \in S : \A y \in S : KeyOrd(x) <= KeyOrd(y)
         IN  <<k>> \o SortKeys(S \ {k})

\* the keys groupby(c) makes groups for, sorted: null keys are dropped
GroupKeys(rows, c) ==
    SortKeys({rows[i][c] : i \in {j \in 1 .. Len(rows) : ~isna(rows[j][c])}})

\* the rows of one group
Group(rows, c, k) == {i \in 1 .. Len(rows) : rows[i][c] = k}

\* series.sum() over the rows I: NaN skipped, 0 for an empty or all-NaN group
RECURSIVE SumOf(_, _, _)
SumOf(rows, c, I) ==
    IF I = {} THEN Num(0)
    ELSE LET i == CHOOSE x \in I : TRUE
             v == rows[i][c]
         IN  FAdd(IF IsNaN(v) THEN Num(0) ELSE v, SumOf(rows, c, I \ {i}))

\* series.mean() over the rows I: NaN skipped, NaN when nothing is left
MeanOf(rows, c, I) ==
    LET V == {i \in I : ~IsNaN(rows[i][c])}
    IN  IF V = {} THEN NaN ELSE FDiv(SumOf(rows, c, V), Num(Cardinality(V)))

\* what a call returns (a DataFrame) or raises
NoResult ==
    [status |-> "none", cols |-> {}, rows |-> <<>>, error |-> "", key |-> "",
     available |-> <<>>, value |-> <<>>]
Ok(cols, rows) == [NoResult EXCEPT !.status = "ok", !.cols = cols, !.rows = rows]
Raise(error, key, available) ==
    [NoResult EXCEPT !.status = "raise", !.error = error, !.key = key, !.available = available]
KeyError(key) == Raise("KeyError", key, <<>>)
\* a returned value that is no DataFrame (a list, a dict, a number)
Value(v) == [NoResult EXCEPT !.status = "ok", !.value = v]

\* df.get(c) followed by pd.to_numeric(..., errors="coerce"): an absent column
\* reads as None and becomes a NaN column
get_numeric(d, r, c) == IF c \in d.cols THEN to_numeric(r[c]) ELSE NaN

----------------------------------------------------------------------------
(* metrics.py: the aggregators *)

\* the hours one use of an app saves, its monthly frequency left out
time_saved_per_use(time_before_hrs, time_after_hrs, frequency_per_month) ==
    FSub(time_before_hrs, time_after_hrs)

\* df2["time_saved"]: the hours an app saves in a month
time_saved(time_before_hrs, time_after_hrs, frequency_per_month) ==
    FMul(FSub(time_before_hrs, time_after_hrs), frequency_per_month)

\* APPS: monthly total of (time_before_hrs - time_after_hrs) * frequency_per_month
compute_apps(d) ==
    LET df2 == [i \in 1 .. Len(d.rows) |->
                 LET r == d.rows[i]
                 IN  [month |-> r.month,
                      time_saved |->
                          time_saved(get_numeric(d, r, "time_before_hrs"),
                                     get_numeric(d, r, "time_after_hrs"),
                                     get_numeric(d, r, "frequency_per_month"))]]
        keys == GroupKeys(df2, "month")
    IN  IF "month" \notin d.cols THEN KeyError("month")
        ELSE Ok({"month", "total_saved"},
                [k \in 1 .. Len(keys) |->
                    [month |-> keys[k],
                     total_saved |-> SumOf(df2, "time_saved", Group(df2, "month", keys[k]))]])

\* (x / y - 1) * 100 on floats
pct_gain(x, y) == FMul(FSub(FDiv(x, y), Num(1)), Num(100))

\* the per-row info gain without its fields_before > 0 mask
info_gain_pct_unmasked(fields_before, fields_after) == pct_gain(fields_after, fields_before)

\* per-row info gain: defined on the rows with fields_before > 0 only
info_gain_pct(fields_before, fields_after) ==
    IF FGt(fields_before, Num(0)) THEN pct_gain(fields_after, fields_before) ELSE NaN

\* per-row speed improvement: defined on the rows with time_before_sec > 0 only
speed_impr_pct(time_before_sec, time_after_sec) ==
    IF FGt(time_before_sec, Num(0))
    THEN FMul(FDiv(FSub(time_before_sec, time_after_sec), time_before_sec), Num(100))
    ELSE NaN

\* the weighted info gain with the "- 1" left out
weighted_info_gain_pct_ratio(sum_fields_after, sum_fields_before) ==
    FMul(FDiv(sum_fields_after, sum_fields_before), Num(100))

\* the month's weighted info gain from the month's sums
weighted_info_gain_pct(sum_fields_after, sum_fields_before) ==
    pct_gain(sum_fields_after, sum_fields_before)

\* the month's simple average of the per-row info gains
avg_info_gain_pct(df2, I) == MeanOf(df2, "info_gain_pct", I)

\* DATA COLLECTION: per-month info gain (simple and weighted) and speed
compute_info_speed(d) ==
    LET df2 == [i \in 1 .. Len(d.rows) |->
                 LET r == d.rows[i]
                     fb == get_numeric(d, r, "fields_before")
                     fa == get_numeric(d, r, "fields_after")
                     tb == get_numeric(d, r, "time_before_sec")
                     ta == get_numeric(d, r, "time_after_sec")
                 IN  [month |-> r.month,
                      fields_before |-> fb,
                      fields_after |-> fa,
                      info_gain_pct |-> info_gain_pct(fb, fa),
                      fields_added |-> FSub(fa, fb),
                      speed_impr_pct |-> speed_impr_pct(tb, ta),
                      speed_delta_sec |-> FSub(ta, tb)]]
        keys == GroupKeys(df2, "month")
        monthly_totals ==
            [k \in 1 .. Len(keys) |->
                LET I == Group(df2, "month", keys[k])
                IN  [month |-> keys[k],
                     weighted_info_gain_pct |->
                         weighted_info_gain_pct(SumOf(df2, "fields_after", I),
                                                SumOf(df2, "fields_before", I))]]
        merged(m) ==
            LET j == CHOOSE x \in 1 .. Len(monthly_totals) : monthly_totals[x].month = m
            IN  monthly_totals[j].weighted_info_gain_pct
    IN  IF "month" \notin d.cols THEN KeyError("month")
        ELSE Ok({"month", "avg_info_gain_pct", "avg_speed_impr_pct", "avg_speed_delta_sec",
                  "total_fields_added", "weighted_info_gain_pct"},
                [k \in 1 .. Len(keys) |->
                    LET I == Group(df2, "month", keys[k])
                    IN  [month |-> keys[k],
                         avg_info_gain_pct |-> avg_info_gain_pct(df2, I),
                         avg_speed_impr_pct |-> MeanOf(df2, "speed_impr_pct", I),
                         avg_speed_delta_sec |-> MeanOf(df2, "speed_delta_sec", I),
                         total_fields_added |-> SumOf(df2, "fields_added", I),
                         weighted_info_gain_pct |-> merged(keys[k])]])

\* per-row mentoring roi: a plain float division
mentoring_roi(team_time_saved_hrs, mentor_hrs) == FDiv(team_time_saved_hrs, mentor_hrs)

\* MENTORING: per-month sums of mentor hours and hours saved, mean of the row rois
compute_mentoring(d) ==
    LET df2 == [i \in 1 .. Len(d.rows) |->
                 LET r == d.rows[i]
                     mh == to_numeric(r.mentor_hrs)
                     ts == to_numeric(r.team_time_saved_hrs)
                 IN  [month |-> to_period_M_str(to_datetime(r.date)),
                      mentor_hrs |-> mh,
                      team_time_saved_hrs |-> ts,
                      roi |-> mentoring_roi(ts, mh)]]
        keys == GroupKeys(df2, "month")
    IN  IF "mentor_hrs" \notin d.cols THEN KeyError("mentor_hrs")
        ELSE IF "team_time_saved_hrs" \notin d.cols THEN KeyError("team_time_saved_hrs")
        ELSE IF "date" \notin d.cols THEN KeyError("date")
        ELSE Ok({"month", "mentor_hrs_sum", "team_saved_sum", "avg_roi"},
                [k \in 1 .. Len(keys) |->
                    LET I == Group(df2, "month", keys[k])
                    IN  [month |-> keys[k],
                         mentor_hrs_sum |-> SumOf(df2, "mentor_hrs", I),
                         team_saved_sum |-> SumOf(df2, "team_time_saved_hrs", I),
                         avg_roi |-> MeanOf(df2, "roi", I)]])

\* AI ENGAGEMENT: per-month sums of users and calls, mean survey score
compute_ai_engagement(d) ==
    LET df2 == [i \in 1 .. Len(d.rows) |->
                 LET r == d.rows[i]
                 IN  [month |-> r.month,
                      active_users |-> to_numeric(r.active_users),
                      ai_calls |-> to_numeric(r.ai_calls),
                      survey_score |-> to_numeric(r.survey_score)]]
        keys == GroupKeys(df2, "month")
    IN  IF "month" \notin d.cols THEN KeyError("month")
        ELSE IF "active_users" \notin d.cols THEN KeyError("active_users")
        ELSE IF "ai_calls" \notin d.cols THEN KeyError("ai_calls")
        ELSE IF "survey_score" \notin d.cols THEN KeyError("survey_score")
        ELSE Ok({"month", "total_active_users", "total_ai_calls", "avg_survey"},
                [k \in 1 .. Len(keys) |->
                    LET I == Group(df2, "month", keys[k])
                    IN  [month |-> keys[k],
                         total_active_users |-> SumOf(df2, "active_users", I),
                         total_ai_calls |-> SumOf(df2, "ai_calls", I),
                         avg_survey |-> MeanOf(df2, "survey_score", I)]])

\* (a - b).dt.days: NaN when either date is NaT
days_between(a, b) == IF a.t = "date" /\ b.t = "date" THEN Num(a.n - b.n) ELSE NaN

\* a <= b on Timestamps: False whenever an operand is NaT
date_le(a, b) == a.t = "date" /\ b.t = "date" /\ a.n <= b.n

\* a >= b on Timestamps: False whenever an operand is NaT
date_ge(a, b) == a.t = "date" /\ b.t = "date" /\ a.n >= b.n

\* on_time with a strict comparison: delivered before the target day
on_time_strict(mvp_actual_date, mvp_target_date) ==
    IF mvp_actual_date.t # "nat" /\ mvp_actual_date.t = "date" /\ mvp_target_date.t = "date"
          /\ mvp_actual_date.n < mvp_target_date.n
    THEN Num(1) ELSE Num(0)

\* (mvp_actual_date.notna() & (mvp_actual_date <= mvp_target_date)).astype(int)
on_time(mvp_actual_date, mvp_target_date) ==
    IF mvp_actual_date.t # "nat" /\ date_le(mvp_actual_date, mvp_target_date)
    THEN Num(1) ELSE Num(0)

\* PROJECT MGMT: one row per project, annotated
compute_project_mgmt(d) ==
    LET added == {"mvp_cycle_days", "on_time", "month"}
        dates == {"start_date", "mvp_target_date", "mvp_actual_date"}
        row2(r) ==
            LET sd == to_datetime(r.start_date)
                td == to_datetime(r.mvp_target_date)
                ad == to_datetime(r.mvp_actual_date)
            IN  [c \in d.cols \cup added |->
                    CASE c = "start_date" -> sd
                      [] c = "mvp_target_date" -> td
                      [] c = "mvp_actual_date" -> ad
                      [] c = "mvp_cycle_days" -> days_between(ad, sd)
                      [] c = "on_time" -> on_time(ad, td)
                      [] c = "month" -> to_period_M_datetime(ad)
                      [] OTHER -> r[c]]
    IN  IF "start_date" \notin d.cols THEN KeyError("start_date")
        ELSE IF "mvp_target_date" \notin d.cols THEN KeyError("mvp_target_date")
        ELSE IF "mvp_actual_date" \notin d.cols THEN KeyError("mvp_actual_date")
        ELSE Ok(d.cols \cup added, [i \in 1 .. Len(d.rows) |-> row2(d.rows[i])])

\* TICKETS: always one row holding the number of input rows
compute_tickets(d) ==
    Ok({"total_tickets_resolved"}, <<[total_tickets_resolved |-> Num(Len(d.rows))]>>)

\* ISSUES: per month, the number of rows of each type (a pivot: the row's
\* counts has one entry per type value seen, 0 where a month has none)
compute_issues(d) ==
    LET df2 == [i \in 1 .. Len(d.rows) |->
                 LET r == d.rows[i]
                 IN  [month |-> IF "date_closed" \in d.cols
                                THEN to_period_M_str(to_datetime(r.date_closed))
                                ELSE r.month,
                      type |-> r.type]]
        kept == {i \in 1 .. Len(df2) : ~isna(df2[i].month) /\ ~isna(df2[i].type)}
        keys == SortKeys({df2[i].month : i \in kept})
        types == {df2[i].type : i \in kept}
    IN  IF "date_closed" \notin d.cols /\ "month" \notin d.cols THEN KeyError("month")
        ELSE IF "type" \notin d.cols THEN KeyError("type")
        ELSE Ok({"month"},
                [k \in 1 .. Len(keys) |->
                    [month |-> keys[k],
                     counts |-> [ty \in types |->
                         Cardinality({i \in kept : df2[i].month = keys[k] /\ df2[i].type = ty})]]])

\* LEARNING: per-month mean efficiency and mean profit over legacy
compute_learning(d) ==
    LET df2 == [i \in 1 .. Len(d.rows) |->
                 LET r == d.rows[i]
                 IN  [month |-> to_period_M_str(to_datetime(r.date)),
                      efficiency |-> FDiv(to_numeric(r.applied_hrs), to_numeric(r.learning_hrs)),
                      profit_over_legacy_pct |-> to_numeric(r.profit_over_legacy_pct)]]
        keys == GroupKeys(df2, "month")
    IN  IF "date" \notin d.cols THEN KeyError("date")
        ELSE IF "applied_hrs" \notin d.cols THEN KeyError("applied_hrs")
        ELSE IF "learning_hrs" \notin d.cols THEN KeyError("learning_hrs")
        ELSE IF "profit_over_legacy_pct" \notin d.cols THEN KeyError("profit_over_legacy_pct")
        ELSE Ok({"month", "avg_efficiency", "avg_profit_over_legacy_pct"},
                [k \in 1 .. Len(keys) |->
                    LET I == Group(df2, "month", keys[k])
                    IN  [month |-> keys[k],
                         avg_efficiency |-> MeanOf(df2, "efficiency", I),
                         avg_profit_over_legacy_pct |->
                             MeanOf(df2, "profit_over_legacy_pct", I)]])

cats == <<"development", "debugging_tickets", "mentoring", "devops", "project_management",
          "meetings">>

\* df2[cats].sum(axis=1): the row's category hours, NaN counted as 0
RECURSIVE total_hours(_, _)
total_hours(h, n) ==
    IF n = 0 THEN Num(0)
    ELSE FAdd(IF IsNaN(h[cats[n]]) THEN Num(0) ELSE h[cats[n]], total_hours(h, n - 1))

\* (hours / total_hours * 100).where(total_hours > 0): NaN where the mask is False
category_pct(hours, total) ==
    IF FGt(total, Num(0)) THEN FMul(FDiv(hours, total), Num(100)) ELSE NaN

\* the frame left in the order of the file
sort_values_as_given(rows, c) == rows

\* sort_values(c): a stable ascending sort, nulls last
RECURSIVE sort_values(_, _)
sort_values(rows, c) ==
    IF rows = <<>> THEN <<>>
    ELSE LET ord(i) == IF isna(rows[i][c]) THEN (MaxMonth + 4) * DaysPerMonth
                       ELSE KeyOrd(rows[i][c])
             m == CHOOSE i \in 1 .. Len(rows) :
                     \A j \in 1 .. Len(rows) :
                         ord(i) < ord(j) \/ (ord(i) = ord(j) /\ i <= j)
         IN  <<rows[m]>> \o
             sort_values(SubSeq(rows, 1, m - 1) \o SubSeq(rows, m + 1, Len(rows)), c)

\* the names of the percentage columns: f"{c}_pct"
pct_col(c) == c \o "_pct"

\* TIME MGMT: one row per input row with total hours and the % split
compute_time_mgmt(d) ==
    LET catset == {cats[n] : n \in 1 .. Len(cats)}
        out_cols == {"week_start", "kw", "total_hours"} \cup catset
                        \cup {pct_col(c) : c \in catset}
        row2(r) ==
            LET h == [c \in catset |-> get_numeric(d, r, c)]
                total == total_hours(h, Len(cats))
            IN  [c \in out_cols |->
                    CASE c = "week_start" -> to_datetime(r.week_start)
                      [] c = "kw" -> r.kw
                      [] c = "total_hours" -> total
                      [] c \in catset -> h[c]
                      [] OTHER -> category_pct(h[CHOOSE b \in catset : pct_col(b) = c], total)]
    IN  IF "week_start" \notin d.cols THEN KeyError("week_start")
        ELSE IF "kw" \notin d.cols THEN KeyError("kw")
        ELSE Ok(out_cols,
                sort_values([i \in 1 .. Len(d.rows) |-> row2(d.rows[i])], "week_start"))

----------------------------------------------------------------------------
(* metrics.py: the registry *)

KPI_META ==
    [apps |-> [display_name |-> "Apps - Time Saved & Dev Speed", unit |-> "hours",
               description |->
                   "Total time saved by apps (hours) and average development speed per app type.",
               source_csv |-> "apps.csv"],
     data_collection |-> [display_name |-> "Information Gain & Speed", unit |-> "%",
               description |->
                   "Weighted info gain (% fields up) and speed improvement (% time down). Time stored in seconds; the UI shows deltas in hours.",
               source_csv |-> "data_collection.csv"],
     mentoring |-> [display_name |-> "Mentoring Impact (by Dept & Type)", unit |-> "hours",
               description |->
                   "Mentor hours, team hours saved, and ROI (saved / mentor) across departments and mentoring types.",
               source_csv |-> "mentoring.csv"],
     ai_engagement |-> [display_name |-> "AI Engagement (Dept Usage)", unit |-> "events",
               description |->
                   "Active users, AI calls, and survey score by department.",
               source_csv |-> "ai_engagement.csv"],
     project_mgmt |-> [display_name |-> "Project Management (MVP Delivery)", unit |-> "count",
               description |->
                   "Projects running, average MVP cycle (days), and on-time delivery rate.",
               source_csv |-> "project_mgmt.csv"],
     tickets |-> [display_name |-> "Tickets Resolved", unit |-> "count",
               description |->
                   "Total number of resolved tickets in selected date range.",
               source_csv |-> "tickets.csv"],
     issues |-> [display_name |-> "Issues & Bugs Resolved", unit |-> "count",
               description |->
                   "Total issues in range and per-type breakdown.",
               source_csv |-> "issues.csv"],
     learning |-> [display_name |-> "Learning - Efficiency & Profit", unit |-> "ratio",
               description |->
                   "Applied/learning efficiency and average profit over legacy (%).",
               source_csv |-> "learning.csv"],
     time_mgmt |-> [display_name |-> "Time Management (Weekly Allocation)", unit |-> "hours",
               description |->
                   "Weekly allocation of hours across Development, Debugging/Tickets, Mentoring, DevOps, Project Management, and Meetings. Cards show average Development% over the selected range.",
               source_csv |-> "time_mgmt.csv"]]

\* KPI_FUNCTIONS[name] = func on a dict that keeps insertion order
register_kpi(reg, name, func) ==
    IF \E i \in 1 .. Len(reg) : reg[i].name = name
    THEN [i \in 1 .. Len(reg) |->
             IF reg[i].name = name THEN [name |-> name, func |-> func] ELSE reg[i]]
    ELSE Append(reg, [name |-> name, func |-> func])

\* the decorators of a module that registers no "issues" aggregator
DecoratorsWithoutIssues ==
    <<[name |-> "apps", func |-> "compute_apps"],
      [name |-> "data_collection", func |-> "compute_info_speed"],
      [name |-> "mentoring", func |-> "compute_mentoring"],
      [name |-> "ai_engagement", func |-> "compute_ai_engagement"],
      [name |-> "project_mgmt", func |-> "compute_project_mgmt"],
      [name |-> "tickets", func |-> "compute_tickets"],
      [name |-> "learning", func |-> "compute_learning"],
      [name |-> "time_mgmt", func |-> "compute_time_mgmt"]>>

\* the @register_kpi decorators, in the order the module runs them
Decorators ==
    <<[name |-> "apps", func |-> "compute_apps"],
      [name |-> "data_collection", func |-> "compute_info_speed"],
      [name |-> "mentoring", func |-> "compute_mentoring"],
      [name |-> "ai_engagement", func |-> "compute_ai_engagement"],
      [name |-> "project_mgmt", func |-> "compute_project_mgmt"],
      [name |-> "tickets", func |-> "compute_tickets"],
      [name |-> "issues", func |-> "compute_issues"],
      [name |-> "learning", func |-> "compute_learning"],
      [name |-> "time_mgmt", func |-> "compute_time_mgmt"]>>

RECURSIVE RegisterAll(_)
RegisterAll(n) ==
    IF n = 0 THEN <<>>
    ELSE register_kpi(RegisterAll(n - 1), Decorators[n].name, Decorators[n].func)

\* list(KPI_FUNCTIONS.keys())
keys_of(reg) == [i \in 1 .. Len(reg) |-> reg[i].name]

\* name in KPI_FUNCTIONS
registered(reg, name) == \E i \in 1 .. Len(reg) : reg[i].name = name

\* KPI_FUNCTIONS[name]
lookup(reg, name) == reg[CHOOSE i \in 1 .. Len(reg) : reg[i].name = name].func

\* calling the function object func on a dataset
Apply(func, d) ==
    CASE func = "compute_apps" -> compute_apps(d)
      [] func = "compute_info_speed" -> compute_info_speed(d)
      [] func = "compute_mentoring" -> compute_mentoring(d)
      [] func = "compute_ai_engagement" -> compute_ai_engagement(d)
      [] func = "compute_project_mgmt" -> compute_project_mgmt(d)
      [] func = "compute_tickets" -> compute_tickets(d)
      [] func = "compute_issues" -> compute_issues(d)
      [] func = "compute_learning" -> compute_learning(d)
      [] func = "compute_time_mgmt" -> compute_time_mgmt(d)

\* the function compute_kpi calls, "" when it calls none
dispatched(reg, name) == IF registered(reg, name) THEN lookup(reg, name) ELSE ""

\* compute_kpi without its membership test: an unknown name is silently ignored
compute_kpi_unchecked(reg, name, d) ==
    IF ~registered(reg, name) THEN Ok({}, <<>>)
    ELSE Apply(lookup(reg, name), d)

compute_kpi(reg, name, d) ==
    IF ~registered(reg, name) THEN Raise("KeyError", name, keys_of(reg))
    ELSE Apply(lookup(reg, name), d)

list_kpis(reg) == keys_of(reg)

\* KPI_META[name]: a name without a record raises KeyError
get_kpi_meta_subscript(name) ==
    IF name \in DOMAIN KPI_META THEN Value(KPI_META[name]) ELSE KeyError(name)

\* KPI_META.get(name, {}): the record, or the empty dict
get_kpi_meta(name) == Value(IF name \in DOMAIN KPI_META THEN KPI_META[name] ELSE <<>>)

----------------------------------------------------------------------------
(* Datasets *)

DF(cols, rows) == [cols |-> cols, rows |-> rows]

\* the sequences of at most n elements of S
SeqsUpTo(S, n) == UNION {[1 .. k -> S] : k \in 0 .. n}

\* the datasets of at most n rows drawn from the set of rows R (all of one schema)
Datasets(R, n) == {DF(DOMAIN (CHOOSE r \in R : TRUE), rows) : rows \in SeqsUpTo(R, n)}

\* pd.DataFrame(): no rows, no columns
EmptyFrame == DF({}, <<>>)

\* the columns each aggregator expects
ExpectedColumns ==
    [apps |-> {"app_id", "app_name", "app_type", "idea_date", "deploy_date", "month",
               "time_before_hrs", "time_after_hrs", "frequency_per_month"},
     data_collection |-> {"proc_id", "proc_name", "month", "fields_before", "fields_after",
                          "time_before_sec", "time_after_sec"},
     mentoring |-> {"session_id", "date", "dept", "mentoring_type", "mentor_hrs",
                    "team_time_saved_hrs"},
     ai_engagement |-> {"month", "dept", "active_users", "ai_calls", "survey_score"},
     project_mgmt |-> {"project_name", "dept", "start_date", "mvp_target_date",
                       "mvp_actual_date"},
     tickets |-> {"ticket_id", "date_closed"},
     issues |-> {"issue_id", "date_closed", "type"},
     learning |-> {"date", "skill", "implementations", "usages", "learning_hrs",
                   "applied_hrs", "profit_over_legacy_pct"},
     time_mgmt |-> {"week_start", "kw", "development", "debugging_tickets", "mentoring",
                    "devops", "project_management", "meetings"}]

\* a file of the indicator holding its header line only
HeaderOnly(name) == DF(ExpectedColumns[name], <<>>)

MonthStarts == {Date(m * DaysPerMonth) : m \in Months}

\* data_collection rows (the speed columns are absent from the current files);
\* two calendar months and an unparseable month make every bucketing case
InfoRows ==
    [month : {Date(0), Date(DaysPerMonth), NaT},
     fields_before : {Num(0), Num(50), Num(100), Txt},
     fields_after : {Num(0), Num(100), Num(150), NaN}]

\* a text cell: its characters
Str(s) == [t |-> "str", s |-> s]

\* time_mgmt rows (weekly generation: week_start, kw and the six categories)
TimeRows ==
    [week_start : {Date(0), Date(1), NaT},
     kw : {Str(<<"K", "W">>)},
     development : {Num(0), Num(2), NaN},
     debugging_tickets : {Num(0), Num(1)},
     mentoring : {Num(0)},
     devops : {Num(1), Txt},
     project_management : {Num(0)},
     meetings : {Num(0)}]

\* mentoring rows
MentoringRows ==
    [date : MonthStarts \cup {NaT},
     dept : {Str(<<"A">>), Str(<<"B">>)},
     mentoring_type : {Str(<<"p">>)},
     mentor_hrs : {Num(0), Num(1), Num(9)},
     team_time_saved_hrs : {Num(9), Num(10)}]

\* project_mgmt rows
ProjectRows ==
    [start_date : {Date(n) : n \in 0 .. MaxDay} \cup {NaT},
     mvp_target_date : {Date(1), NaT},
     mvp_actual_date : {Date(n) : n \in 0 .. MaxDay} \cup {NaT, Txt}]

\* the words of the worklog type mapping, as characters
ticket == <<"t", "i", "c", "k", "e", "t">>
bug == <<"b", "u", "g">>
error == <<"e", "r", "r", "o", "r">>
Ticket == <<"T", "i", "c", "k", "e", "t">>
Bug == <<"B", "u", "g">>
Error == <<"E", "r", "r", "o", "r">>

Lowers == <<"b", "c", "e", "g", "i", "k", "o", "r", "t", "u">>
Uppers == <<"B", "C", "E", "G", "I", "K", "O", "R", "T", "U">>
UpperOf(c) == Uppers[CHOOSE i \in 1 .. Len(Lowers) : Lowers[i] = c]

\* every upper / lower case spelling of a lower-case word
RECURSIVE CaseVariants(_)
CaseVariants(w) ==
    IF w = <<>> THEN {<<>>}
    ELSE {<<c>> \o rest : c \in {Head(w), UpperOf(Head(w))}, rest \in CaseVariants(Tail(w))}

\* with and without a blank before and after
Padded(S) == {pre \o w \o post : pre \in {<<>>, <<" ">>}, post \in {<<>>, <<" ">>}, w \in S}

\* type cells of a worklog file: every spelling of the three types, other texts,
\* a missing cell
TypeCells ==
    {Str(w) : w \in Padded(CaseVariants(ticket) \cup CaseVariants(bug) \cup CaseVariants(error))}
        \cup {Str(<<>>), Str(<<" ">>), Str(<<"P", "R">>), Str(<<"b", "u", "g", "s">>),
              Str(<<"b", " ", "u", "g">>), Str(<<"t", "i", "c", "k">>), Str(<<" ", "P", "R">>)}
        \cup {NaN}

\* worklog rows: a few types on every day
WorklogRows ==
    [type : {Str(bug), Str(<<"P", "R">>)},
     id : {Num(1)},
     date_closed : {Date(n) : n \in 0 .. MaxDay} \cup {NaT},
     time_consumed : {Num(1)}]

\* worklog rows: every type on one day
WorklogTypeRows ==
    [type : TypeCells, id : {Num(1)}, date_closed : {Date(0)}, time_consumed : {Num(1)}]

\* tickets rows
TicketRows == [ticket_id : {Num(101)}, date_closed : {Date(0), NaT}]

----------------------------------------------------------------------------
(* The frame each aggregator works on, and what the caller's frame is after *)

\* the columns load_kpi parses as dates
suggested ==
    {"month", "date", "date_closed", "idea_date", "deploy_date", "start_date",
     "mvp_target_date", "mvp_actual_date", "week_start"}

\* df2 = df: the aggregator would work on the caller's own frame
same_frame(d) == [frame |-> d, is_caller_frame |-> TRUE]

\* df2 = df.copy(): a new frame of the same content
copy(d) == [frame |-> d, is_caller_frame |-> FALSE]

\* the columns the aggregator assigns in its working frame df2
assigned_columns(func, d) ==
    CASE func = "compute_apps" ->
            {"time_before_hrs", "time_after_hrs", "frequency_per_month", "time_saved"}
      [] func = "compute_info_speed" ->
            {"fields_before", "fields_after", "time_before_sec", "time_after_sec",
             "info_gain_pct", "fields_added", "speed_impr_pct", "speed_delta_sec"}
      [] func = "compute_mentoring" -> {"mentor_hrs", "team_time_saved_hrs", "month", "roi"}
      [] func = "compute_ai_engagement" ->
            {"active_users", "ai_calls", "survey_score"} \cap d.cols
      [] func = "compute_project_mgmt" ->
            {"start_date", "mvp_target_date", "mvp_actual_date", "mvp_cycle_days", "on_time",
             "month"}
      [] func = "compute_issues" -> IF "date_closed" \in d.cols THEN {"month"} ELSE {}
      [] func = "compute_learning" ->
            ({"implementations", "usages", "learning_hrs", "applied_hrs",
              "profit_over_legacy_pct"} \cap d.cols) \cup {"month", "efficiency"}
      [] func = "compute_time_mgmt" ->
            {"week_start", "total_hours"} \cup {cats[n] : n \in 1 .. Len(cats)}
                \cup {pct_col(cats[n]) : n \in 1 .. Len(cats)}
      [] OTHER -> {}

\* the value the aggregator assigns to column c of the row r
assigned_value(func, d, r, c) ==
    CASE func = "compute_apps" /\ c = "time_saved" ->
            FMul(FSub(get_numeric(d, r, "time_before_hrs"),
                      get_numeric(d, r, "time_after_hrs")),
                 get_numeric(d, r, "frequency_per_month"))
      [] func = "compute_info_speed" /\ c = "info_gain_pct" ->
            info_gain_pct(get_numeric(d, r, "fields_before"), get_numeric(d, r, "fields_after"))
      [] func = "compute_info_speed" /\ c = "fields_added" ->
            FSub(get_numeric(d, r, "fields_after"), get_numeric(d, r, "fields_before"))
      [] func = "compute_info_speed" /\ c = "speed_impr_pct" ->
            speed_impr_pct(get_numeric(d, r, "time_before_sec"),
                           get_numeric(d, r, "time_after_sec"))
      [] func = "compute_info_speed" /\ c = "speed_delta_sec" ->
            FSub(get_numeric(d, r, "time_after_sec"), get_numeric(d, r, "time_before_sec"))
      [] func = "compute_mentoring" /\ c = "roi" ->
            mentoring_roi(to_numeric(r.team_time_saved_hrs), to_numeric(r.mentor_hrs))
      [] func \in {"compute_mentoring", "compute_learning"} /\ c = "month" ->
            to_period_M_str(to_datetime(r.date))
      [] func = "compute_issues" /\ c = "month" ->
            to_period_M_str(to_datetime(r.date_closed))
      [] func = "compute_learning" /\ c = "efficiency" ->
            FDiv(to_numeric(r.applied_hrs), to_numeric(r.learning_hrs))
      [] func = "compute_project_mgmt" /\ c \in {"mvp_cycle_days", "on_time", "month"} ->
            LET j == CHOOSE i \in 1 .. Len(d.rows) : d.rows[i] = r
            IN  compute_project_mgmt(d).rows[j][c]
      [] func = "compute_time_mgmt" /\ c \notin {"week_start"} \cup d.cols ->
            compute_time_mgmt(DF(d.cols, <<r>>)).rows[1][c]
      [] c \in suggested -> to_datetime(r[c])
      [] OTHER -> get_numeric(d, r, c)

\* df2 when the aggregator returns
working_frame(func, d) ==
    LET cols == d.cols \cup assigned_columns(func, d)
    IN  DF(cols,
           [i \in 1 .. Len(d.rows) |->
               [c \in cols |->
                   IF c \in assigned_columns(func, d)
                   THEN assigned_value(func, d, d.rows[i], c)
                   ELSE d.rows[i][c]]])

\* the caller's frame after func(df): compute_tickets only reads len(df); the
\* others assign into df2 (a call that raises leaves the frame as it found it)
frame_after(func, d) ==
    IF func \in {"", "compute_tickets"} \/ Apply(func, d).status = "raise" THEN d
    ELSE IF copy(d).is_caller_frame THEN working_frame(func, d)
    ELSE d

----------------------------------------------------------------------------
(* Operations *)

\* no data/<key>.csv written yet, no form submitted yet
NoFile == [exists |-> FALSE, key |-> "", header |-> <<>>, rows |-> <<>>]
NoInputs == [key |-> "", values |-> <<>>]

\* the dashboard script has not run
NoRun == [pc |-> "none"]

\* the state after `import metrics`: every decorator has run
InitRegistry == KPI_FUNCTIONS = RegisterAll(Len(Decorators))

NoCall == [op |-> "none", name |-> "", func |-> ""]

\* names a caller may ask for: the registered ones, the pinned "worklog", a typo
RequestNames == {Decorators[i].name : i \in 1 .. Len(Decorators)} \cup {"worklog", "unknown"}

ComputeKpi(name) ==
    /\ call' = [op |-> "compute_kpi", name |-> name,
                func |-> dispatched(KPI_FUNCTIONS, name)]
    /\ result' = compute_kpi(KPI_FUNCTIONS, name, df)
    /\ df' = frame_after(dispatched(KPI_FUNCTIONS, name), df)
    /\ UNCHANGED <<KPI_FUNCTIONS, start_date, end_date, csv, field_inputs, run>>

ListKpis ==
    /\ call' = [op |-> "list_kpis", name |-> "", func |-> ""]
    /\ result' = Value(list_kpis(KPI_FUNCTIONS))
    /\ UNCHANGED <<KPI_FUNCTIONS, df, start_date, end_date, csv, field_inputs, run>>

GetKpiMeta(name) ==
    /\ call' = [op |-> "get_kpi_meta", name |-> name, func |-> ""]
    /\ result' = get_kpi_meta(name)
    /\ UNCHANGED <<KPI_FUNCTIONS, df, start_date, end_date, csv, field_inputs, run>>

----------------------------------------------------------------------------
(* The registry called on empty, header-only and small datasets *)

RegistryDatasets ==
    {EmptyFrame} \cup {HeaderOnly(n) : n \in DOMAIN ExpectedColumns}
        \cup Datasets(InfoRows, 1) \cup Datasets(TicketRows, MaxRows)
        \cup Datasets(ProjectRows, MaxProjects)

InitRegistrySpec ==
    /\ InitRegistry
    /\ df \in RegistryDatasets
    /\ start_date = 0
    /\ end_date = 0
    /\ call = NoCall
    /\ result = NoResult
    /\ csv = NoFile
    /\ field_inputs = NoInputs
    /\ run = NoRun

NextRegistry ==
    \/ \E name \in RequestNames : ComputeKpi(name)
    \/ ListKpis
    \/ \E name \in RequestNames : GetKpiMeta(name)

SpecRegistry == InitRegistrySpec /\ [][NextRegistry]_vars

\* the functions the module registers, name by name
RegisteredFunction ==
    [apps |-> "compute_apps", data_collection |-> "compute_info_speed",
     mentoring |-> "compute_mentoring", ai_engagement |-> "compute_ai_engagement",
     project_mgmt |-> "compute_project_mgmt", tickets |-> "compute_tickets",
     issues |-> "compute_issues", learning |-> "compute_learning",
     time_mgmt |-> "compute_time_mgmt"]

\* C1: compute_kpi with an unregistered name calls no aggregator and raises the
\* unknown-indicator error carrying the requested name and the full list of
\* registered names; with a registered name it calls exactly the function
\* registered under that name and returns what that function returns.
C1_UnknownRaisesKnownDispatches ==
    call.op = "compute_kpi" =>
        IF call.name \in DOMAIN RegisteredFunction
        THEN /\ call.func = RegisteredFunction[call.name]
             /\ result = Apply(RegisteredFunction[call.name], df)
             /\ result.available = <<>>
        ELSE /\ call.func = ""
             /\ result.status = "raise"
             /\ result.error = "KeyError"
             /\ result.key = call.name
             /\ result.available =
                    <<"apps", "data_collection", "mentoring", "ai_engagement",
                      "project_mgmt", "tickets", "issues", "learning", "time_mgmt">>

C1_Witness ==
    /\ call.op = "compute_kpi"
    /\ call.name = "unknown"
    /\ result.status = "raise"
    /\ result.key = "unknown"
    /\ Len(result.available) = 9

\* the result columns each aggregator declares
DeclaredOutput ==
    [apps |-> {"month", "total_saved"},
     data_collection |-> {"avg_info_gain_pct", "weighted_info_gain_pct", "avg_speed_impr_pct",
                          "avg_speed_delta_sec", "total_fields_added"},
     mentoring |-> {"month", "mentor_hrs_sum", "team_saved_sum", "avg_roi"},
     ai_engagement |-> {"month", "total_active_users", "total_ai_calls", "avg_survey"},
     project_mgmt |-> {"mvp_cycle_days", "on_time", "month"},
     tickets |-> {"total_tickets_resolved"},
     issues |-> {"month"},
     learning |-> {"avg_efficiency", "avg_profit_over_legacy_pct"},
     time_mgmt |-> {"week_start", "kw", "total_hours"}]

\* C2: for every registered name, compute_kpi on the indicator's empty dataset
\* (its columns, no rows) does not raise and returns zero rows carrying the
\* indicator's declared output columns.
C2_EmptyDatasetGivesZeroRows ==
    (/\ call.op = "compute_kpi"
     /\ call.name \in DOMAIN RegisteredFunction
     /\ df = HeaderOnly(call.name))
        => /\ result.status = "ok"
           /\ Len(result.rows) = 0
           /\ DeclaredOutput[call.name] \subseteq result.cols

\* the fields of a metadata record
MetaFields == {"display_name", "unit", "description", "source_csv"}

\* C16: get_kpi_meta never raises; for a name with a metadata record it returns
\* that record, with its display_name, unit, description and source_csv (the
\* indicator's own file), and for any other name the empty record.
C16_MetaOrEmpty ==
    call.op = "get_kpi_meta" =>
        /\ result.status = "ok"
        /\ IF call.name \in DOMAIN RegisteredFunction
           THEN /\ DOMAIN result.value = MetaFields
                /\ result.value.source_csv = call.name \o ".csv"
                /\ result.value.unit \in {"hours", "%", "events", "count", "ratio"}
                /\ result.value.display_name # ""
                /\ result.value.description # ""
           ELSE result.value = <<>>

C16_Witness ==
    /\ call.op = "get_kpi_meta"
    /\ call.name = "worklog"
    /\ result.status = "ok"
    /\ result.value = <<>>

----------------------------------------------------------------------------
(* The data-collection aggregator on small files *)

InitDataCollection ==
    /\ InitRegistry
    /\ df \in Datasets(InfoRows, MaxRows)
    /\ start_date = 0
    /\ end_date = 0
    /\ call = NoCall
    /\ result = NoResult
    /\ csv = NoFile
    /\ field_inputs = NoInputs
    /\ run = NoRun

NextDataCollection == ComputeKpi("data_collection")

SpecDataCollection == InitDataCollection /\ [][NextDataCollection]_vars

\* the integer a raw cell contributes to a sum (text and missing cells: nothing)
IntOf(v) == IF v.t = "num" THEN v.n ELSE 0

RECURSIVE IntSum(_, _)
IntSum(f, I) ==
    IF I = {} THEN 0
    ELSE LET i == CHOOSE x \in I : TRUE IN f[i] + IntSum(f, I \ {i})

RECURSIVE IntProd(_, _)
IntProd(f, I) ==
    IF I = {} THEN 1
    ELSE LET i == CHOOSE x \in I : TRUE IN f[i] * IntProd(f, I \ {i})

DataCollectionDone ==
    call.op = "compute_kpi" /\ call.name = "data_collection" /\ result.status = "ok"

\* the input rows of the month of an output row
RowsOfMonth(m) == {i \in 1 .. Len(df.rows) : df.rows[i].month = m}

Before == [i \in 1 .. Len(df.rows) |-> IntOf(df.rows[i].fields_before)]
After == [i \in 1 .. Len(df.rows) |-> IntOf(df.rows[i].fields_after)]

\* the file holds exactly the two given rows, in one month
InfoExample(b1, a1, b2, a2) ==
    /\ Len(df.rows) = 2
    /\ df.rows[1].month = df.rows[2].month
    /\ df.rows[1].month # NaT
    /\ df.rows[1].fields_before = Num(b1) /\ df.rows[1].fields_after = Num(a1)
    /\ df.rows[2].fields_before = Num(b2) /\ df.rows[2].fields_after = Num(a2)

\* C4: every month bucket carries weighted_info_gain_pct =
\* (sum of fields_after / sum of fields_before - 1) * 100 over the month's rows
\* (the float result of a division by zero, inf or NaN, when the month's
\* fields_before sum to 0), next to avg_info_gain_pct; for fields_before
\* [50, 100] and fields_after [100, 150] in one month the weighted value is
\* 200/3, the simple mean is 75.
C4_WeightedInfoGain ==
    DataCollectionDone =>
        /\ {"weighted_info_gain_pct", "avg_info_gain_pct"} \subseteq result.cols
        /\ \A k \in 1 .. Len(result.rows) :
              LET w == result.rows[k].weighted_info_gain_pct
                  I == RowsOfMonth(result.rows[k].month)
                  SA == IntSum(After, I)
                  SB == IntSum(Before, I)
              IN  IF SB = 0 THEN w.t \in {"inf", "nan"}
                  ELSE w.t = "num" /\ w.n * SB = 100 * (SA - SB) * w.d
        /\ InfoExample(50, 100, 100, 150) =>
              /\ Len(result.rows) = 1
              /\ result.rows[1].weighted_info_gain_pct = Frac(200, 3)
              /\ result.rows[1].avg_info_gain_pct = Num(75)

C4_Witness ==
    /\ DataCollectionDone
    /\ InfoExample(50, 100, 100, 150)
    /\ result.rows[1].weighted_info_gain_pct = Frac(200, 3)
    /\ result.rows[1].avg_info_gain_pct # result.rows[1].weighted_info_gain_pct

\* C5: a row whose fields_before is 0 or missing is in neither the numerator nor
\* the denominator of the month's avg_info_gain_pct: the average is the mean of
\* (fields_after / fields_before - 1) * 100 over the month's rows with
\* fields_before > 0 (and a fields_after), missing when there is none; for
\* fields_before [0, 100] and fields_after [0, 150] it is 50, as is the
\* weighted value.
C5_ZeroFieldsBeforeExcluded ==
    DataCollectionDone =>
        /\ \A k \in 1 .. Len(result.rows) :
              LET avg == result.rows[k].avg_info_gain_pct
                  I == RowsOfMonth(result.rows[k].month)
                  V == {i \in I : /\ df.rows[i].fields_before.t = "num"
                                  /\ df.rows[i].fields_before.n > 0
                                  /\ df.rows[i].fields_after.t = "num"}
                  P == IntProd(Before, V)
                  gains == [i \in 1 .. Len(df.rows) |->
                               IF i \in V
                               THEN 100 * (After[i] - Before[i]) * (P \div Before[i])
                               ELSE 0]
              IN  IF V = {} THEN avg = NaN
                  ELSE avg.t = "num" /\ avg.n * Cardinality(V) * P = IntSum(gains, V) * avg.d
        /\ InfoExample(0, 0, 100, 150) =>
              /\ Len(result.rows) = 1
              /\ result.rows[1].avg_info_gain_pct = Num(50)
              /\ result.rows[1].weighted_info_gain_pct = Num(50)

C5_Witness ==
    /\ DataCollectionDone
    /\ InfoExample(0, 0, 100, 150)
    /\ result.rows[1].avg_info_gain_pct = Num(50)

----------------------------------------------------------------------------
(* The time-management aggregator on small files *)

InitTimeMgmt ==
    /\ InitRegistry
    /\ df \in Datasets(TimeRows, MaxRows)
    /\ start_date = 0
    /\ end_date = 0
    /\ call = NoCall
    /\ result = NoResult
    /\ csv = NoFile
    /\ field_inputs = NoInputs
    /\ run = NoRun

NextTimeMgmt == ComputeKpi("time_mgmt")

SpecTimeMgmt == InitTimeMgmt /\ [][NextTimeMgmt]_vars

TimeMgmtDone ==
    call.op = "compute_kpi" /\ call.name = "time_mgmt" /\ result.status = "ok"

\* C3: in the time-management result every row with total_hours = 0 has each
\* of its six <category>_pct fields exactly 0, never missing.
C3_ZeroTotalGivesZeroPct ==
    TimeMgmtDone =>
        \A k \in 1 .. Len(result.rows) :
            result.rows[k].total_hours = Num(0) =>
                \A n \in 1 .. Len(cats) : result.rows[k][pct_col(cats[n])] = Num(0)

----------------------------------------------------------------------------
(* app.py: the mentoring details section, and the mentoring aggregator *)

\* a range filter that leaves both bounds out
in_range_open(v, s, e) == v.t = "date" /\ v.n > s /\ v.n < e

\* (col >= pd.to_datetime(start_date)) & (col <= pd.to_datetime(end_date))
in_range(v, s, e) == v.t = "date" /\ v.n >= s /\ v.n <= e

\* frame[mask]: the index labels of the rows kept, in order
RECURSIVE Kept(_, _)
Kept(mask, n) ==
    IF n = 0 THEN <<>>
    ELSE IF mask[n] THEN Append(Kept(mask, n - 1), n) ELSE Kept(mask, n - 1)

\* the rows of a frame at the given index labels
Take(rows, idx) == [k \in 1 .. Len(idx) |-> rows[idx[k]]]

\* m.groupby(by, as_index=False).agg(mentor_hrs=sum, team_saved=sum)
mentoring_breakdown(m, by) ==
    LET keys == GroupKeys(m, by)
    IN  [k \in 1 .. Len(keys) |->
            LET I == Group(m, by, keys[k])
            IN  [key |-> keys[k],
                 mentor_hrs |-> SumOf(m, "mentor_hrs", I),
                 team_saved |-> SumOf(m, "team_time_saved_hrs", I)]]

\* the "mentoring" branch of the details loop
mentoring_details(d, s, e) ==
    LET dated == [i \in 1 .. Len(d.rows) |->
                    [d.rows[i] EXCEPT !.date = to_datetime(d.rows[i].date)]]
        idx == Kept([i \in 1 .. Len(dated) |-> in_range(dated[i].date, s, e)], Len(dated))
        m == [k \in 1 .. Len(idx) |->
                 [dated[idx[k]] EXCEPT
                     !.mentor_hrs = to_numeric(dated[idx[k]].mentor_hrs),
                     !.team_time_saved_hrs = to_numeric(dated[idx[k]].team_time_saved_hrs)]]
    IN  IF Len(idx) = 0
        THEN Value([shown |-> "No mentoring sessions in selected range",
                    per_dept |-> <<>>, per_type |-> <<>>])
        ELSE Value([shown |-> "tables",
                    per_dept |-> mentoring_breakdown(m, "dept"),
                    per_type |-> mentoring_breakdown(m, "mentoring_type")])

MentoringDetails ==
    /\ call' = [op |-> "details", name |-> "mentoring", func |-> ""]
    /\ result' = mentoring_details(df, start_date, end_date)
    /\ UNCHANGED <<KPI_FUNCTIONS, df, start_date, end_date, csv, field_inputs, run>>

LastDay == (MaxMonth + 1) * DaysPerMonth - 1

InitMentoring ==
    /\ InitRegistry
    /\ df \in Datasets(MentoringRows, MaxRows)
    /\ start_date \in {0, 1}
    /\ end_date = LastDay
    /\ call = NoCall
    /\ result = NoResult
    /\ csv = NoFile
    /\ field_inputs = NoInputs
    /\ run = NoRun

NextMentoring ==
    \/ ComputeKpi("mentoring")
    \/ MentoringDetails

SpecMentoring == InitMentoring /\ [][NextMentoring]_vars

\* C6: the mentoring breakdowns by department and by mentoring type expose, per
\* group, the summed mentor hours, the summed team hours saved and an ROI equal
\* to (sum of team_time_saved_hrs) / (sum of mentor_hrs) of the group.
C6_GroupedRoiFromSums ==
    (call.op = "details" /\ call.name = "mentoring" /\ result.value.shown = "tables") =>
        \A g \in {result.value.per_dept, result.value.per_type} :
            \A k \in 1 .. Len(g) :
                /\ {"mentor_hrs", "team_saved", "roi"} \subseteq DOMAIN g[k]
                /\ g[k].roi = FDiv(g[k].team_saved, g[k].mentor_hrs)

MentoringDone ==
    call.op = "compute_kpi" /\ call.name = "mentoring" /\ result.status = "ok"

MentorHrs == [i \in 1 .. Len(df.rows) |-> IntOf(df.rows[i].mentor_hrs)]
TeamSaved == [i \in 1 .. Len(df.rows) |-> IntOf(df.rows[i].team_time_saved_hrs)]

\* C7: a mentoring row with mentor_hrs = 0 is left out of the month's avg_roi,
\* which is the mean of team_time_saved_hrs / mentor_hrs over the month's rows
\* with mentor_hrs # 0 and never infinite, while mentor_hrs_sum and
\* team_saved_sum count every row of the month.
C7_ZeroMentorHoursExcluded ==
    MentoringDone =>
        \A k \in 1 .. Len(result.rows) :
            LET row == result.rows[k]
                I == {i \in 1 .. Len(df.rows) :
                         to_period_M_str(to_datetime(df.rows[i].date)) = row.month}
                V == {i \in I : MentorHrs[i] # 0}
                P == IntProd(MentorHrs, V)
                rois == [i \in 1 .. Len(df.rows) |->
                            IF i \in V THEN TeamSaved[i] * (P \div MentorHrs[i]) ELSE 0]
            IN  /\ row.mentor_hrs_sum = Num(IntSum(MentorHrs, I))
                /\ row.team_saved_sum = Num(IntSum(TeamSaved, I))
                /\ row.avg_roi.t # "inf"
                /\ IF V = {} THEN row.avg_roi = NaN
                   ELSE /\ row.avg_roi.t = "num"
                        /\ row.avg_roi.n * Cardinality(V) * P = IntSum(rois, V) * row.avg_roi.d

----------------------------------------------------------------------------
(* app.py: the project-management card *)

\* a project is kept as running: delivered only ones (the isna() branch dropped)
running_delivered_only(r, s, e) ==
    /\ date_le(r.start_date, Date(e))
    /\ date_ge(r.mvp_actual_date, Date(s))

\* the mask of `running`, on a row whose dates went through pd.to_datetime
running(r, s, e) ==
    /\ date_le(r.start_date, Date(e))
    /\ (r.mvp_actual_date.t = "nat" \/ date_ge(r.mvp_actual_date, Date(s)))

\* the "project_mgmt" branch of the cards loop: the rows counted as running
\* (their index labels) and the number shown
project_mgmt_card(d, s, e) ==
    LET pm == [i \in 1 .. Len(d.rows) |->
                 [c \in d.cols |->
                     IF c \in {"start_date", "mvp_target_date", "mvp_actual_date"}
                     THEN to_datetime(d.rows[i][c]) ELSE d.rows[i][c]]]
        idx == Kept([i \in 1 .. Len(pm) |-> running(pm[i], s, e)], Len(pm))
    IN  IF "start_date" \notin d.cols THEN KeyError("start_date")
        ELSE IF "mvp_target_date" \notin d.cols THEN KeyError("mvp_target_date")
        ELSE IF "mvp_actual_date" \notin d.cols THEN KeyError("mvp_actual_date")
        ELSE Value([running |-> idx, shown |-> Len(idx)])

ProjectMgmtCard ==
    /\ call' = [op |-> "card", name |-> "project_mgmt", func |-> ""]
    /\ result' = project_mgmt_card(df, start_date, end_date)
    /\ UNCHANGED <<KPI_FUNCTIONS, df, start_date, end_date, csv, field_inputs, run>>

InitProjectMgmt ==
    /\ InitRegistry
    /\ df \in Datasets(ProjectRows, MaxProjects)
    /\ start_date \in 0 .. MaxDay
    /\ end_date \in 0 .. MaxDay
    /\ call = NoCall
    /\ result = NoResult
    /\ csv = NoFile
    /\ field_inputs = NoInputs
    /\ run = NoRun

NextProjectMgmt ==
    \/ ComputeKpi("project_mgmt")
    \/ ProjectMgmtCard

SpecProjectMgmt == InitProjectMgmt /\ [][NextProjectMgmt]_vars

ProjectCardDone == call.op = "card" /\ call.name = "project_mgmt" /\ result.status = "ok"

\* the row's index label is among those counted as running
CountedRunning(i) == \E k \in 1 .. Len(result.value.running) : result.value.running[k] = i

\* C8: for the window [start_date, end_date] a project is counted as running
\* if and only if its start_date <= end_date and its mvp_actual_date is absent
\* or >= start_date; a project started before the window and not delivered is
\* counted.
C8_RunningProjects ==
    ProjectCardDone =>
        /\ result.value.shown = Len(result.value.running)
        /\ \A i \in 1 .. Len(df.rows) :
              LET sd == df.rows[i].start_date
                  ad == df.rows[i].mvp_actual_date
              IN  CountedRunning(i) <=>
                      /\ sd.t = "date" /\ sd.n <= end_date
                      /\ (ad.t # "date" \/ ad.n >= start_date)

C8_Witness ==
    /\ ProjectCardDone
    /\ Len(df.rows) = 1
    /\ df.rows[1].start_date = Date(0)
    /\ df.rows[1].mvp_target_date = Date(1)
    /\ df.rows[1].mvp_actual_date = NaT
    /\ start_date = 1
    /\ end_date = 2
    /\ result.value.shown = 1

----------------------------------------------------------------------------
(* app.py: the worklog card and details *)

\* str.lower(), character by character
LowerOf(c) ==
    IF \E i \in 1 .. Len(Uppers) : Uppers[i] = c
    THEN Lowers[CHOOSE i \in 1 .. Len(Uppers) : Uppers[i] = c]
    ELSE c
lower(s) == [i \in 1 .. Len(s) |-> LowerOf(s[i])]

\* str.strip(): leading and trailing blanks removed
RECURSIVE lstrip(_)
lstrip(s) == IF s # <<>> /\ Head(s) = " " THEN lstrip(Tail(s)) ELSE s
RECURSIVE rstrip(_)
rstrip(s) == IF s # <<>> /\ s[Len(s)] = " " THEN rstrip(SubSeq(s, 1, Len(s) - 1)) ELSE s
strip(s) == rstrip(lstrip(s))

\* mapping = {"ticket": "Ticket", "bug": "Bug", "error": "Error"}
mapping == {<<ticket, Ticket>>, <<bug, Bug>>, <<error, Error>>}

\* the type mapping with the .str.strip() left out
normalize_type_unstripped(v) ==
    IF v.t = "str" /\ \E m \in mapping : m[1] = lower(v.s)
    THEN Str((CHOOSE m \in mapping : m[1] = lower(v.s))[2])
    ELSE v

\* astype(str).str.strip().str.lower().map(mapping).fillna(original), on a cell
\* (the text of a cell that is no string is never a key of the mapping)
normalize_type(v) ==
    IF v.t = "str" /\ \E m \in mapping : m[1] = lower(strip(v.s))
    THEN Str((CHOOSE m \in mapping : m[1] = lower(strip(v.s)))[2])
    ELSE v

\* pd.date_range(start, end, freq="D")
date_range(s, e) == [i \in 1 .. (IF e >= s THEN e - s + 1 ELSE 0) |-> Date(s + i - 1)]

\* zero_fill_days without the reindex over the range
zero_fill_days_as_given(d, date_col, start, end) == d.rows

\* set_index(date_col).reindex(rng).fillna(0).rename_axis(date_col).reset_index()
zero_fill_days(d, date_col, start, end) ==
    LET rng == date_range(start, end)
    IN  [i \in 1 .. Len(rng) |->
            IF \E k \in 1 .. Len(d.rows) : d.rows[k][date_col] = rng[i]
            THEN LET r == d.rows[CHOOSE k \in 1 .. Len(d.rows) : d.rows[k][date_col] = rng[i]]
                 IN  [c \in d.cols |-> IF c # date_col /\ isna(r[c]) THEN Num(0) ELSE r[c]]
            ELSE [c \in d.cols |-> IF c = date_col THEN rng[i] ELSE Num(0)]]

\* the points of the trailing moving average (rolling(7, min_periods=1))
MaWindow == 7

\* the mean of every point up to position i, the window never moving on
rolling_mean_expanding(rows, c, i) == MeanOf(rows, c, 1 .. i)

\* series.rolling(MaWindow, min_periods=1).mean() at position i
rolling_mean(rows, c, i) ==
    LET lo == IF i - MaWindow + 1 < 1 THEN 1 ELSE i - MaWindow + 1
    IN  MeanOf(rows, c, lo .. i)

\* the rows of the worklog in range: date_closed parsed, NaT dropped, the
\* range filter applied (the index labels kept)
worklog_in_range(d, s, e) ==
    Kept([i \in 1 .. Len(d.rows) |-> in_range(to_datetime(d.rows[i].date_closed), s, e)],
         Len(d.rows))

\* pd.to_numeric(w.get("time_consumed"), errors="coerce").fillna(0.0)
time_consumed(r) == LET v == to_numeric(r.time_consumed) IN IF IsNaN(v) THEN Num(0) ELSE v

\* what both worklog branches raise before they compute anything
worklog_raises(d) ==
    IF "date_closed" \notin d.cols THEN KeyError("date_closed")
    ELSE IF "type" \notin d.cols THEN KeyError("type")
    ELSE IF "time_consumed" \notin d.cols THEN Raise("AttributeError", "fillna", <<>>)
    ELSE NoResult

\* the "worklog" branch of the cards loop
worklog_card(d, s, e) ==
    LET idx == worklog_in_range(d, s, e)
        w == [k \in 1 .. Len(idx) |->
                 [type |-> normalize_type(d.rows[idx[k]].type),
                  time_consumed |-> time_consumed(d.rows[idx[k]])]]
    IN  IF worklog_raises(d).status = "raise" THEN worklog_raises(d)
        ELSE Value([index |-> idx,
                    type |-> [k \in 1 .. Len(w) |-> w[k].type],
                    total_count |-> Len(w),
                    total_time |-> SumOf(w, "time_consumed", 1 .. Len(w))])

\* the "worklog" branch of the details loop
worklog_details(d, s, e) ==
    LET idx == worklog_in_range(d, s, e)
        w == [k \in 1 .. Len(idx) |->
                 [type |-> normalize_type(d.rows[idx[k]].type),
                  day |-> to_datetime(d.rows[idx[k]].date_closed)]]
        count(ty) == Cardinality({k \in 1 .. Len(w) : w[k].type = Str(ty)})
        days == GroupKeys(w, "day")
        daily_counts ==
            DF({"day", "closed"},
               [k \in 1 .. Len(days) |->
                   [day |-> days[k], closed |-> Num(Cardinality(Group(w, "day", days[k])))]])
        filled == zero_fill_days(daily_counts, "day", s, e)
    IN  IF worklog_raises(d).status = "raise" THEN worklog_raises(d)
        ELSE Value([index |-> idx,
                    type |-> [k \in 1 .. Len(w) |-> w[k].type],
                    bugs |-> count(Bug),
                    errors |-> count(Error),
                    tickets |-> count(Ticket),
                    daily_counts |->
                        [i \in 1 .. Len(filled) |->
                            [day |-> filled[i].day,
                             closed |-> filled[i].closed,
                             closed_ma7 |-> rolling_mean(filled, "closed", i)]]])

WorklogCard ==
    /\ call' = [op |-> "card", name |-> "worklog", func |-> ""]
    /\ result' = worklog_card(df, start_date, end_date)
    /\ UNCHANGED <<KPI_FUNCTIONS, df, start_date, end_date, csv, field_inputs, run>>

WorklogDetails ==
    /\ call' = [op |-> "details", name |-> "worklog", func |-> ""]
    /\ result' = worklog_details(df, start_date, end_date)
    /\ UNCHANGED <<KPI_FUNCTIONS, df, start_date, end_date, csv, field_inputs, run>>

InitWorklog ==
    /\ InitRegistry
    /\ df \in Datasets(WorklogRows, MaxRows) \cup Datasets(WorklogTypeRows, 1)
    /\ start_date \in 0 .. MaxDay
    /\ end_date \in 0 .. MaxDay
    /\ call = NoCall
    /\ result = NoResult
    /\ csv = NoFile
    /\ field_inputs = NoInputs
    /\ run = NoRun

NextWorklog ==
    \/ WorklogCard
    \/ WorklogDetails

SpecWorklog == InitWorklog /\ [][NextWorklog]_vars

WorklogDetailsDone == call.op = "details" /\ call.name = "worklog" /\ result.status = "ok"

\* C9: over the range [start_date, end_date] of N calendar days the zero-filled
\* daily series has exactly N rows, one per day in ascending order, each holding
\* the number of closures of that day, 0 for a day without closures; with
\* closures on the first and the fifth day of a 5-day range only, it has 5 rows
\* with 0 on days 2 to 4.
C9_DailySeriesZeroFilled ==
    WorklogDetailsDone =>
        LET daily == result.value.daily_counts
            N == IF end_date >= start_date THEN end_date - start_date + 1 ELSE 0
        IN  /\ Len(daily) = N
            /\ \A i \in 1 .. N :
                  /\ daily[i].day = Date(start_date + i - 1)
                  /\ daily[i].closed =
                        Num(Cardinality({j \in 1 .. Len(df.rows) :
                                df.rows[j].date_closed = Date(start_date + i - 1)}))

C9_Witness ==
    /\ WorklogDetailsDone
    /\ start_date = 0
    /\ end_date = 4
    /\ Len(df.rows) = 2
    /\ {df.rows[1].date_closed, df.rows[2].date_closed} = {Date(0), Date(4)}
    /\ Len(result.value.daily_counts) = 5
    /\ [i \in 1 .. 5 |-> result.value.daily_counts[i].closed.n] = <<1, 0, 0, 0, 1>>

\* s is the word w in some upper / lower case spelling, between blanks
IsSpelling(s, w) ==
    \E a \in 0 .. Len(s) :
        /\ a + Len(w) <= Len(s)
        /\ \A i \in 1 .. Len(s) :
              IF i <= a \/ i > a + Len(w) THEN s[i] = " "
              ELSE s[i] \in {w[i - a], UpperOf(w[i - a])}

WorklogDone == call.name = "worklog" /\ call.op \in {"card", "details"} /\ result.status = "ok"

\* C10: the worklog type mapping turns every value that is ticket, bug or error
\* once trimmed and lower-cased into exactly Ticket, Bug or Error, leaves every
\* other value as it was, and applied to its own result changes nothing.
C10_TypeNormalization ==
    WorklogDone =>
        \A k \in 1 .. Len(result.value.index) :
            LET raw == df.rows[result.value.index[k]].type
                out == result.value.type[k]
                is(w) == raw.t = "str" /\ IsSpelling(raw.s, w)
            IN  /\ is(ticket) => out = Str(Ticket)
                /\ is(bug) => out = Str(Bug)
                /\ is(error) => out = Str(Error)
                /\ ~(is(ticket) \/ is(bug) \/ is(error)) => out = raw
                /\ normalize_type(out) = out

C10_Witness ==
    /\ WorklogDone
    /\ Len(result.value.index) = 1
    /\ df.rows[1].type = Str(<<" ", "b", "U", "g", " ">>)
    /\ result.value.type[1] = Str(Bug)

----------------------------------------------------------------------------
(* The learning aggregator on small files *)

\* learning rows: the columns the aggregator names, and the time_saved_hrs of
\* the newer files
LearningRows ==
    [date : {Date(0), Date(DaysPerMonth)},
     learning_hrs : {Num(0), Num(2), Txt},
     applied_hrs : {Num(0), Num(1)},
     profit_over_legacy_pct : {Num(5)},
     time_saved_hrs : {Num(0), Num(4)}]

InitLearning ==
    /\ InitRegistry
    /\ df \in Datasets(LearningRows, MaxRows)
    /\ start_date = 0
    /\ end_date = 0
    /\ call = NoCall
    /\ result = NoResult
    /\ csv = NoFile
    /\ field_inputs = NoInputs
    /\ run = NoRun

NextLearning == ComputeKpi("learning")

SpecLearning == InitLearning /\ [][NextLearning]_vars

LearningDone ==
    call.op = "compute_kpi" /\ call.name = "learning" /\ result.status = "ok"

\* x / y, 0 when the denominator is 0
ZeroGuardedRatio(x, y) == IF y = Num(0) THEN Num(0) ELSE FDiv(x, y)

\* the input rows of a month bucket, each with its zero-guarded ratios
LearningRowsOfMonth(m) ==
    LET I == {i \in 1 .. Len(df.rows) : to_period_M_str(to_datetime(df.rows[i].date)) = m}
    IN  [i \in I |->
            [efficiency |-> ZeroGuardedRatio(to_numeric(df.rows[i].applied_hrs),
                                             to_numeric(df.rows[i].learning_hrs)),
             roi_time |-> ZeroGuardedRatio(to_numeric(df.rows[i].time_saved_hrs),
                                           to_numeric(df.rows[i].learning_hrs))]]

\* C11: the learning result carries an efficiency and a roi_time figure per
\* month bucket, each the mean of the rows' ratios applied_hrs / learning_hrs
\* and time_saved_hrs / learning_hrs, where a row with learning_hrs = 0 has
\* both ratios 0 (never infinite, never missing).
C11_LearningZeroDenominator ==
    LearningDone =>
        /\ {"avg_efficiency", "avg_roi_time"} \subseteq result.cols
        /\ \A k \in 1 .. Len(result.rows) :
              LET R == LearningRowsOfMonth(result.rows[k].month)
                  rows == [i \in 1 .. Len(df.rows) |->
                              IF i \in DOMAIN R THEN R[i]
                              ELSE [efficiency |-> NaN, roi_time |-> NaN]]
              IN  /\ result.rows[k].avg_efficiency = MeanOf(rows, "efficiency", DOMAIN R)
                  /\ result.rows[k].avg_roi_time = MeanOf(rows, "roi_time", DOMAIN R)

----------------------------------------------------------------------------
(* Files of an older or newer schema generation: one expected column absent *)

\* one well-formed record of each indicator's file, as load_kpi returns it
SchemaRow ==
    [apps |-> [app_id |-> Num(1), app_name |-> Str(<<"A">>), app_type |-> Str(<<"A">>),
               idea_date |-> Date(0), deploy_date |-> Date(1), month |-> Date(0),
               time_before_hrs |-> Num(9), time_after_hrs |-> Num(1),
               frequency_per_month |-> Num(2)],
     data_collection |-> [proc_id |-> Num(1), proc_name |-> Str(<<"A">>), month |-> Date(0),
               fields_before |-> Num(50), fields_after |-> Num(100),
               time_before_sec |-> Num(9), time_after_sec |-> Num(1)],
     mentoring |-> [session_id |-> Num(1), date |-> Date(0), dept |-> Str(<<"A">>),
               mentoring_type |-> Str(<<"p">>), mentor_hrs |-> Num(1),
               team_time_saved_hrs |-> Num(9)],
     ai_engagement |-> [month |-> Date(0), dept |-> Str(<<"A">>), active_users |-> Num(2),
               ai_calls |-> Num(9), survey_score |-> Num(1)],
     project_mgmt |-> [project_name |-> Str(<<"A">>), dept |-> Str(<<"A">>),
               start_date |-> Date(0), mvp_target_date |-> Date(1),
               mvp_actual_date |-> Date(1)],
     tickets |-> [ticket_id |-> Num(101), date_closed |-> Date(0)],
     issues |-> [issue_id |-> Num(1), date_closed |-> Date(0), type |-> Str(bug)],
     learning |-> [date |-> Date(0), skill |-> Str(<<"A">>), implementations |-> Num(1),
               usages |-> Num(2), learning_hrs |-> Num(2), applied_hrs |-> Num(1),
               profit_over_legacy_pct |-> Num(5)],
     time_mgmt |-> [week_start |-> Date(0), kw |-> Str(<<"K", "W">>), development |-> Num(2),
               debugging_tickets |-> Num(1), mentoring |-> Num(0), devops |-> Num(1),
               project_management |-> Num(0), meetings |-> Num(0)]]

\* the indicator's one-record file restricted to the columns C
SchemaFile(name, C) == DF(C, <<[c \in C |-> SchemaRow[name][c]]>>)

\* the indicator's file, whole and with each one of its columns absent
SchemaFiles(name) ==
    {SchemaFile(name, ExpectedColumns[name])}
        \cup {SchemaFile(name, ExpectedColumns[name] \ {c}) : c \in ExpectedColumns[name]}

\* the column an aggregator buckets by
AnchorColumns == {"month", "date", "date_closed", "week_start"}

InitSchema ==
    /\ InitRegistry
    /\ df \in UNION {SchemaFiles(name) : name \in DOMAIN ExpectedColumns}
    /\ start_date = 0
    /\ end_date = 0
    /\ call = NoCall
    /\ result = NoResult
    /\ csv = NoFile
    /\ field_inputs = NoInputs
    /\ run = NoRun

NextSchema == \E name \in DOMAIN ExpectedColumns : ComputeKpi(name)

SpecSchema == InitSchema /\ [][NextSchema]_vars

\* the registered aggregator was called on its own file with column c absent
CalledWithout(c) ==
    /\ call.op = "compute_kpi"
    /\ call.name \in DOMAIN ExpectedColumns
    /\ c \in ExpectedColumns[call.name]
    /\ df = SchemaFile(call.name, ExpectedColumns[call.name] \ {c})

\* C12: a registered aggregator called on a file that lacks one of its
\* expected non-temporal columns (a measure or a text field) does not raise:
\* it returns a result.
C12_MissingColumnDoesNotRaise ==
    \A name \in DOMAIN ExpectedColumns :
        \A c \in ExpectedColumns[name] \ suggested :
            (call.name = name /\ CalledWithout(c)) => result.status = "ok"

\* C13: a registered aggregator called on a file whose temporal anchor column
\* (month, date, date_closed, week_start) is absent returns a zero-row result
\* and does not raise.
C13_MissingAnchorGivesZeroRows ==
    \A name \in DOMAIN ExpectedColumns :
        \A c \in ExpectedColumns[name] \cap AnchorColumns :
            (call.name = name /\ CalledWithout(c)) =>
                /\ result.status = "ok"
                /\ Len(result.rows) = 0

----------------------------------------------------------------------------
(* The bucketing aggregators on files holding several rows of one period *)

\* apps rows
AppsRows ==
    [month : {Date(0), Date(DaysPerMonth), NaT},
     time_before_hrs : {Num(9), Num(5), Txt},
     time_after_hrs : {Num(1), NaN},
     frequency_per_month : {Num(2), Num(3)}]

\* ai_engagement rows
AiRows ==
    [month : {Date(0), Date(DaysPerMonth)},
     dept : {Str(<<"A">>), Str(<<"B">>)},
     active_users : {Num(2)},
     ai_calls : {Num(9)},
     survey_score : {Num(1), NaN}]

\* issues rows
IssueRows ==
    [issue_id : {Num(1)},
     date_closed : {Date(0), Date(1), Date(DaysPerMonth), NaT},
     type : {Str(bug), Str(<<"P", "R">>)}]

\* the rows the files of each bucketing aggregator are made of
BucketRows ==
    [apps |-> AppsRows, data_collection |-> InfoRows, mentoring |-> MentoringRows,
     ai_engagement |-> AiRows, issues |-> IssueRows, learning |-> LearningRows,
     time_mgmt |-> TimeRows]

\* the columns of the indicator's file
ColumnsOf(name) == DOMAIN (CHOOSE r \in BucketRows[name] : TRUE)

InitBuckets ==
    /\ InitRegistry
    /\ df \in UNION {Datasets(BucketRows[name], MaxRows) : name \in DOMAIN BucketRows}
    /\ start_date = 0
    /\ end_date = 0
    /\ call = NoCall
    /\ result = NoResult
    /\ csv = NoFile
    /\ field_inputs = NoInputs
    /\ run = NoRun

\* df_kpi = metrics.compute_kpi(kpi, df_raw), df_raw the file of kpi
NextBuckets ==
    \E name \in DOMAIN BucketRows : df.cols = ColumnsOf(name) /\ ComputeKpi(name)

SpecBuckets == InitBuckets /\ [][NextBuckets]_vars

\* the temporal key of the indicator's result rows
TemporalKey(name) == IF name = "time_mgmt" THEN "week_start" ELSE "month"

\* C14: in the result of a bucketing aggregator no two rows carry the same
\* temporal key (month; week_start for time management), whatever the input,
\* several input rows of one period included.
C14_UniqueTemporalKeys ==
    (call.op = "compute_kpi" /\ call.name \in DOMAIN BucketRows /\ result.status = "ok") =>
        \A i, j \in 1 .. Len(result.rows) :
            i # j => result.rows[i][TemporalKey(call.name)]
                        # result.rows[j][TemporalKey(call.name)]

----------------------------------------------------------------------------
(* app.py: the append form; metrics.py: load_kpi *)

\* the form's fields, file by file, in column order
CSV_SCHEMAS ==
    [apps |-> <<"app_id", "app_name", "app_type", "idea_date", "deploy_date", "month",
                "time_before_hrs", "time_after_hrs", "frequency_per_month">>,
     data_collection |-> <<"proc_id", "proc_name", "month", "fields_before", "fields_after">>,
     mentoring |-> <<"session_id", "date", "dept", "mentoring_type", "mentor_hrs",
                     "team_time_saved_hrs">>,
     project_mgmt |-> <<"project_name", "dept", "start_date", "mvp_target_date",
                        "mvp_actual_date">>,
     worklog |-> <<"type", "id", "date_closed", "time_consumed">>,
     learning |-> <<"date", "skill", "learning_hrs", "applied_hrs", "applications",
                    "delta_performance_pct", "time_saved_hrs", "cost_eur">>,
     time_mgmt |-> <<"date", "development", "debugging_tickets", "mentoring", "devops",
                     "project_management", "meetings">>]

\* the fields entered and written as days
DateFields ==
    {"date", "date_closed", "idea_date", "deploy_date", "start_date", "mvp_target_date",
     "mvp_actual_date"}

\* the fields entered with st.number_input
NumericFields ==
    {"fields_before", "fields_after", "time_before_hrs", "time_after_hrs",
     "frequency_per_month", "learning_hrs", "applied_hrs", "mentor_hrs",
     "team_time_saved_hrs", "implementations", "usages", "profit_over_legacy_pct",
     "development", "debugging_tickets", "mentoring", "devops", "project_management",
     "meetings", "time_consumed", "applications", "delta_performance_pct",
     "time_saved_hrs", "cost_eur"}

\* option lists of the select boxes (the first two options of each); an option
\* is a text of one token
DEPT_OPTIONS == <<Str(<<"RM">>), Str(<<"PD">>)>>
MENTORING_TYPES == <<Str(<<"prompt_eng">>), Str(<<"nocode_guidance">>)>>
WORKLOG_TYPES == <<Str(Ticket), Str(Bug)>>
APP_TYPES ==
    <<[label |-> Str(<<"Simple Data Collection/Procedure">>), code |-> Str(<<"simple">>)],
      [label |-> Str(<<"AI Full App">>), code |-> Str(<<"ai_full">>)]>>

\* the options of the select box of a field, <<>> when the field has none
options(key, field) ==
    IF key = "mentoring" /\ field = "dept" THEN DEPT_OPTIONS
    ELSE IF key = "mentoring" /\ field = "mentoring_type" THEN MENTORING_TYPES
    ELSE IF key = "project_mgmt" /\ field = "dept" THEN DEPT_OPTIONS
    ELSE IF key = "apps" /\ field = "app_type"
         THEN [i \in 1 .. Len(APP_TYPES) |-> APP_TYPES[i].label]
    ELSE IF key = "worklog" /\ field = "type" THEN WORKLOG_TYPES
    ELSE <<>>

\* the value the field's widget returns: a date for the date and month fields,
\* the chosen option, a float, or the text typed
widget_value(key, field, day, choice, number, text) ==
    IF field \in DateFields \cup {"month"} THEN day
    ELSE IF options(key, field) # <<>> THEN options(key, field)[choice]
    ELSE IF field \in NumericFields THEN number
    ELSE text

\* v.strftime("%Y-%m-%d"): the text 'YYYY-MM-DD' of month n, day d of the month
strftime_Ymd(v) == [t |-> "ymd", n |-> v.n \div DaysPerMonth, d |-> (v.n % DaysPerMonth) + 1]

\* v.strftime("%Y-%m"): the text 'YYYY-MM'
strftime_Ym(v) == Month(v.n \div DaysPerMonth)

\* APP_TYPES.get(v, v)
app_type_code(v) ==
    IF \E i \in 1 .. Len(APP_TYPES) : APP_TYPES[i].label = v
    THEN APP_TYPES[CHOOSE i \in 1 .. Len(APP_TYPES) : APP_TYPES[i].label = v].code
    ELSE v

\* the submit handler's conversion of one field before writing
converted(k, v) ==
    IF k \in DateFields /\ v.t = "date" THEN strftime_Ymd(v)
    ELSE IF k = "month" /\ v.t = "date" THEN strftime_Ym(v)
    ELSE IF k = "app_type" THEN app_type_code(v)
    ELSE v

Digits == <<"0", "1", "2", "3", "4", "5", "6", "7", "8", "9">>
IsDigit(c) == \E i \in 1 .. Len(Digits) : Digits[i] = c
DigitVal(c) == (CHOOSE i \in 1 .. Len(Digits) : Digits[i] = c) - 1

\* str(n) of a non-negative integer
RECURSIVE str_of_int(_)
str_of_int(n) ==
    IF n < 10 THEN <<Digits[n + 1]>>
    ELSE str_of_int(n \div 10) \o <<Digits[(n % 10) + 1]>>

\* int(s) of a text of digits
RECURSIVE int_of_digits(_)
int_of_digits(s) ==
    IF s = <<>> THEN 0
    ELSE int_of_digits(SubSeq(s, 1, Len(s) - 1)) * 10 + DigitVal(s[Len(s)])

all_digits(s) == s # <<>> /\ \A i \in 1 .. Len(s) : IsDigit(s[i])

\* a Python int, as a column of integer dtype holds it
PyInt(n) == [t |-> "int", n |-> n, d |-> 1]

\* a CSV field that reads as an integer / as a float (the whole floats the
\* form's number inputs write: digits, a point, a zero)
is_int_text(f) == f.t = "str" /\ all_digits(f.s)
is_float_text(f) ==
    /\ f.t = "str"
    /\ Len(f.s) >= 3
    /\ f.s[Len(f.s) - 1] = "."
    /\ f.s[Len(f.s)] = "0"
    /\ all_digits(SubSeq(f.s, 1, Len(f.s) - 2))
is_empty_text(f) == f.t = "str" /\ f.s = <<>>

\* to_csv's text of one cell: NaN as the empty field, an int as its digits, a
\* float with its fraction, a text as it is
to_csv_field(v) ==
    CASE v.t = "nan" -> Str(<<>>)
      [] v.t = "int" -> Str(str_of_int(v.n))
      [] v.t = "num" -> Str(str_of_int(v.n) \o <<".", "0">>)
      [] OTHER -> v

\* the dtype pd.read_csv infers for a column from its fields
inferred_dtype(fields) ==
    LET filled == {i \in 1 .. Len(fields) : ~is_empty_text(fields[i])}
    IN  IF Len(fields) = 0 THEN "object"
        ELSE IF \A i \in filled : is_int_text(fields[i]) \/ is_float_text(fields[i])
        THEN IF filled = 1 .. Len(fields) /\ \A i \in filled : is_int_text(fields[i])
             THEN "int64" ELSE "float64"
        ELSE "object"

\* one field read into a column of the given dtype
read_csv_cell(f, dtype) ==
    IF is_empty_text(f) THEN NaN
    ELSE IF dtype = "int64" THEN PyInt(int_of_digits(f.s))
    ELSE IF dtype = "float64"
         THEN IF is_int_text(f) THEN Num(int_of_digits(f.s))
              ELSE Num(int_of_digits(SubSeq(f.s, 1, Len(f.s) - 2)))
    ELSE f

\* the fields of column c of a file
column(file, c) == [i \in 1 .. Len(file.rows) |-> file.rows[i][c]]

\* pd.read_csv(csv_path): every column with its inferred dtype, no date parsing
read_csv(file) ==
    [i \in 1 .. Len(file.rows) |->
        [c \in DOMAIN file.rows[i] |->
            read_csv_cell(file.rows[i][c], inferred_dtype(column(file, c)))]]

\* pd.concat([df_existing, df_new], ignore_index=True) for one new row of the
\* same columns: an integer column that receives a float becomes a float column
concat(existing, new) ==
    [i \in 1 .. Len(existing) |->
        [c \in DOMAIN existing[i] |->
            IF existing[i][c].t = "int" /\ new[c].t = "num"
            THEN Num(existing[i][c].n) ELSE existing[i][c]]]
      \o <<new>>

\* df.to_csv(csv_path, index=False)
to_csv(key, header, frame) ==
    [exists |-> TRUE, key |-> key, header |-> header,
     rows |-> [i \in 1 .. Len(frame) |->
                 [c \in DOMAIN frame[i] |-> to_csv_field(frame[i][c])]]]

\* read_csv(parse_dates=[c]) parses column c when its filled fields are dates
\* of one notation; otherwise the column stays as inferred
parses_as_dates(fields) ==
    LET filled == {i \in 1 .. Len(fields) : ~is_empty_text(fields[i])}
    IN  /\ filled # {}
        /\ \/ \A i \in filled : fields[i].t = "ymd"
           \/ \A i \in filled : fields[i].t = "month"

\* load_kpi: the columns named in `suggested` are parsed as dates, the others
\* read with their inferred dtype (an integer is a number of the frame)
load_kpi(file) ==
    LET cols == {file.header[i] : i \in 1 .. Len(file.header)}
        cell(i, c) ==
            IF c \in suggested /\ parses_as_dates(column(file, c))
            THEN to_datetime(file.rows[i][c])
            ELSE LET v == read_csv_cell(file.rows[i][c], inferred_dtype(column(file, c)))
                 IN  IF v.t = "int" THEN Num(v.n) ELSE v
    IN  DF(cols, [i \in 1 .. Len(file.rows) |-> [c \in cols |-> cell(i, c)]])

\* what the form is filled with
FormDays == {Date(0), Date(DaysPerMonth + 1)}
FormNumbers == {Num(0), Num(3)}
FormTexts == {Str(<<>>), Str(<<"A">>), Str(<<"7">>)}
FormChoices == {1, 2}

\* "Append Entry" pressed with the form filled for the file `key`
AppendEntry(key, day, choice, number, text) ==
    LET fields == {CSV_SCHEMAS[key][i] : i \in 1 .. Len(CSV_SCHEMAS[key])}
        values == [f \in fields |-> widget_value(key, f, day, choice, number, text)]
        df_new == [f \in fields |-> converted(f, values[f])]
        df_combined == IF csv.exists THEN concat(read_csv(csv), df_new) ELSE <<df_new>>
    IN  /\ csv.exists => (csv.key = key /\ Len(csv.rows) < MaxRows)
        /\ field_inputs' = [key |-> key, values |-> values]
        /\ csv' = to_csv(key, CSV_SCHEMAS[key], df_combined)
        /\ call' = [op |-> "append", name |-> key, func |-> ""]
        /\ result' = Value("Entry appended")
        /\ UNCHANGED <<KPI_FUNCTIONS, df, start_date, end_date, run>>

\* df_raw = load_kpi(data/<key>.csv)
LoadKpi ==
    /\ csv.exists
    /\ df' = load_kpi(csv)
    /\ call' = [op |-> "load_kpi", name |-> csv.key, func |-> ""]
    /\ result' = Ok(load_kpi(csv).cols, load_kpi(csv).rows)
    /\ UNCHANGED <<KPI_FUNCTIONS, start_date, end_date, csv, field_inputs, run>>

InitAppend ==
    /\ InitRegistry
    /\ df = EmptyFrame
    /\ start_date = 0
    /\ end_date = 0
    /\ call = NoCall
    /\ result = NoResult
    /\ csv = NoFile
    /\ field_inputs = NoInputs
    /\ run = NoRun

NextAppend ==
    \/ \E key \in DOMAIN CSV_SCHEMAS, day \in FormDays, choice \in FormChoices,
          number \in FormNumbers, text \in FormTexts :
            AppendEntry(key, day, choice, number, text)
    \/ LoadKpi

SpecAppend == InitAppend /\ [][NextAppend]_vars

\* the file was reloaded after the last submission
Reloaded == call.op = "load_kpi" /\ field_inputs.key = csv.key /\ result.status = "ok"

\* the reloaded value of a field equals the submitted one: the same day for a
\* date field, the submitted month (its first day) for the month field, the
\* same number, option or text otherwise
SameValue(field, submitted, reloaded) ==
    IF field = "month" THEN reloaded = month_start(submitted)
    ELSE reloaded = submitted

\* C15: after a record is appended through the form and the file reloaded
\* with load_kpi, the last row equals the submitted record column by column.
C15_AppendRoundTrip ==
    Reloaded =>
        /\ Len(df.rows) >= 1
        /\ \A f \in DOMAIN field_inputs.values :
              SameValue(f, field_inputs.values[f], df.rows[Len(df.rows)][f])

----------------------------------------------------------------------------
(* Calls leave their input and the registry as they found them *)

\* C17: a compute_kpi, list_kpis or get_kpi_meta call, anywhere in a sequence
\* of calls, leaves the caller's dataset (columns, rows, cell values) and the
\* registry (names, order, functions) unchanged.
C17_NoSideEffects ==
    [][call'.op \in {"compute_kpi", "list_kpis", "get_kpi_meta"} =>
          (df' = df /\ KPI_FUNCTIONS' = KPI_FUNCTIONS)]_vars

\* the project aggregator has returned its annotated rows and the file's frame
\* still has the file's columns only
C17_Witness ==
    /\ call.op = "compute_kpi"
    /\ call.name = "project_mgmt"
    /\ result.status = "ok"
    /\ Len(result.rows) = 1
    /\ "on_time" \in result.cols
    /\ df.cols = {"start_date", "mvp_target_date", "mvp_actual_date"}
    /\ KPI_FUNCTIONS = RegisterAll(Len(Decorators))

----------------------------------------------------------------------------
(* app.py: the headline cards of mentoring, time management, data collection *)

\* the rows of a frame kept by the mask
Filtered(rows, mask) ==
    LET idx == Kept(mask, Len(rows)) IN [k \in 1 .. Len(idx) |-> rows[idx[k]]]

\* the cards loop's range filter of a result that has a month column
month_range_filter(rows, s, e) ==
    LET dated == [i \in 1 .. Len(rows) |->
                     [rows[i] EXCEPT !.month = to_datetime(rows[i].month)]]
    IN  Filtered(dated, [i \in 1 .. Len(dated) |-> in_range(dated[i].month, s, e)])

\* num / den if den > 0 else 0.0
guarded_ratio(num, den) == IF FGt(den, Num(0)) THEN FDiv(num, den) ELSE Num(0)

\* the mentoring card from the file's rows, coerced
mentoring_roi_card(dated, s, e) ==
    LET m == Filtered(dated, [i \in 1 .. Len(dated) |-> in_range(dated[i].date, s, e)])
        mentor_hrs == SumOf(m, "mentor_hrs", 1 .. Len(m))
        team_saved == SumOf(m, "team_time_saved_hrs", 1 .. Len(m))
    IN  IF Len(m) = 0 THEN Value([shown |-> "No records"])
        ELSE Value([shown |-> "Mentoring ROI", mentor_hrs |-> mentor_hrs,
                    roi |-> guarded_ratio(team_saved, mentor_hrs)])

\* what follows df_kpi = compute_kpi(kpi, df_raw) when the call raises
or_raise(df_kpi, shown) == IF df_kpi.status = "raise" THEN df_kpi ELSE shown

\* the "mentoring" branch of the cards loop
mentoring_card(reg, d, s, e) ==
    or_raise(compute_kpi(reg, "mentoring", d),
             mentoring_roi_card(
                 [i \in 1 .. Len(d.rows) |->
                     [d.rows[i] EXCEPT
                         !.date = to_datetime(d.rows[i].date),
                         !.mentor_hrs = to_numeric(d.rows[i].mentor_hrs),
                         !.team_time_saved_hrs = to_numeric(d.rows[i].team_time_saved_hrs)]],
                 s, e))

\* the dev-focus card from the aggregator's result tm: the rows are filtered
\* on tm["date"]
dev_focus_card(tm, s, e) ==
    LET kept == Filtered(tm.rows, [i \in 1 .. Len(tm.rows) |-> in_range(tm.rows[i].date, s, e)])
        dev_sum == SumOf(kept, "development", 1 .. Len(kept))
        total_sum == SumOf(kept, "total_hours", 1 .. Len(kept))
    IN  IF tm.status = "raise" THEN tm
        ELSE IF Len(tm.rows) = 0 THEN Value([shown |-> "No records"])
        ELSE IF "date" \notin tm.cols THEN KeyError("date")
        ELSE IF Len(kept) = 0 THEN Value([shown |-> "No records"])
        ELSE Value([shown |-> "Time Management (Dev Focus)", total_sum |-> total_sum,
                    dev_focus |-> FMul(guarded_ratio(dev_sum, total_sum), Num(100))])

\* the "time_mgmt" branch of the cards loop
time_mgmt_card(reg, d, s, e) == dev_focus_card(compute_kpi(reg, "time_mgmt", d), s, e)

\* the weighted-average card from the aggregator's result
weighted_avg_card(res, s, e) ==
    LET df_kpi == IF res.status = "raise" THEN <<>> ELSE month_range_filter(res.rows, s, e)
    IN  IF res.status = "raise" THEN res
        ELSE IF Len(df_kpi) = 0 THEN Value([shown |-> "No records"])
        ELSE Value([shown |-> "Weighted Avg", months |-> df_kpi,
                    value |-> MeanOf(df_kpi, "weighted_info_gain_pct", 1 .. Len(df_kpi))])

\* the "data_collection" branch of the cards loop
data_collection_card(reg, d, s, e) ==
    weighted_avg_card(compute_kpi(reg, "data_collection", d), s, e)

\* one pass of the cards loop for the indicator whose file is loaded
HeadlineCard(kpi) ==
    /\ call' = [op |-> "card", name |-> kpi, func |-> ""]
    /\ result' =
          CASE kpi = "mentoring" -> mentoring_card(KPI_FUNCTIONS, df, start_date, end_date)
            [] kpi = "time_mgmt" -> time_mgmt_card(KPI_FUNCTIONS, df, start_date, end_date)
            [] kpi = "data_collection" ->
                  data_collection_card(KPI_FUNCTIONS, df, start_date, end_date)
    /\ UNCHANGED <<KPI_FUNCTIONS, df, start_date, end_date, csv, field_inputs, run>>

CardKpis == {"mentoring", "time_mgmt", "data_collection"}

InitCards ==
    /\ InitRegistry
    /\ df \in UNION {Datasets(BucketRows[kpi], MaxRows) : kpi \in CardKpis}
    /\ start_date \in {0, 1}
    /\ end_date = LastDay
    /\ call = NoCall
    /\ result = NoResult
    /\ csv = NoFile
    /\ field_inputs = NoInputs
    /\ run = NoRun

NextCards == \E kpi \in CardKpis : df.cols = ColumnsOf(kpi) /\ HeadlineCard(kpi)

SpecCards == InitCards /\ [][NextCards]_vars

\* the rows of the file whose date column c lies in the sidebar range
InRange(c) == {i \in 1 .. Len(df.rows) : in_range(to_datetime(df.rows[i][c]), start_date, end_date)}

\* the mentoring card shows 0 when the mentor hours in range sum to 0
MentoringCardGuarded ==
    (/\ call.op = "card" /\ call.name = "mentoring"
     /\ InRange("date") # {}
     /\ IntSum(MentorHrs, InRange("date")) = 0)
        => (result.status = "ok" /\ result.value.roi = Num(0))

\* the dev-focus card shows 0 when the hours in range sum to 0
TimeMgmtCardGuarded ==
    (/\ call.op = "card" /\ call.name = "time_mgmt"
     /\ InRange("week_start") # {}
     /\ \A i \in InRange("week_start"), n \in 1 .. Len(cats) :
            IntOf(df.rows[i][cats[n]]) = 0)
        => (result.status = "ok" /\ result.value.dev_focus = Num(0))

\* the data-collection card's weighted info gain is 0 for a month whose
\* fields_before sum to 0, and the value shown is a number
DataCollectionCardGuarded ==
    (call.op = "card" /\ call.name = "data_collection" /\ result.status = "ok"
        /\ result.value.shown = "Weighted Avg")
        => /\ \A k \in 1 .. Len(result.value.months) :
                 IntSum(Before, RowsOfMonth(result.value.months[k].month)) = 0
                     => result.value.months[k].weighted_info_gain_pct = Num(0)
           /\ IsNum(result.value.value)

\* C18: every ratio of a headline card is a number when its denominator is 0
\* or absent: the mentoring ROI, the dev focus and the weighted info gain are
\* then 0, never infinite, NaN or an error.
C18_CardRatiosDefined ==
    /\ MentoringCardGuarded
    /\ TimeMgmtCardGuarded
    /\ DataCollectionCardGuarded

----------------------------------------------------------------------------
(* The project-management aggregator's rows *)

ProjectDone ==
    call.op = "compute_kpi" /\ call.name = "project_mgmt" /\ result.status = "ok"

\* the day a raw date cell holds, when it holds one
IsDay(v) == v.t = "date"

\* C19: the project-management result has one row per input row, in input
\* order; on_time is 1 exactly when the delivery date is present and not after
\* a present target date, else 0; mvp_cycle_days is mvp_actual_date minus
\* start_date in days, missing when either is absent; month is the first day
\* of the delivery month, missing without a delivery date.
C19_ProjectRows ==
    ProjectDone =>
        /\ Len(result.rows) = Len(df.rows)
        /\ \A i \in 1 .. Len(df.rows) :
              LET in_ == df.rows[i]
                  out == result.rows[i]
                  a == in_.mvp_actual_date
                  t == in_.mvp_target_date
                  s == in_.start_date
              IN  /\ out.on_time \in {Num(0), Num(1)}
                  /\ out.on_time = Num(1) <=> (IsDay(a) /\ IsDay(t) /\ a.n <= t.n)
                  /\ IF IsDay(a) /\ IsDay(s)
                     THEN out.mvp_cycle_days = Num(a.n - s.n)
                     ELSE out.mvp_cycle_days = NaN
                  /\ IF IsDay(a)
                     THEN /\ IsDay(out.month)
                          /\ out.month.n % DaysPerMonth = 0
                          /\ out.month.n <= a.n
                          /\ a.n < out.month.n + DaysPerMonth
                     ELSE out.month = NaT

\* a project started on day 0 and delivered on its target day, day 1
C19_Witness ==
    /\ ProjectDone
    /\ Len(result.rows) = 1
    /\ df.rows[1].mvp_actual_date = Date(1)
    /\ df.rows[1].mvp_target_date = Date(1)
    /\ df.rows[1].start_date = Date(0)
    /\ result.rows[1].on_time = Num(1)
    /\ result.rows[1].mvp_cycle_days = Num(1)
    /\ result.rows[1].month = Date(0)

----------------------------------------------------------------------------
(* The apps aggregator on files with missing and unparseable measures *)

InitApps ==
    /\ InitRegistry
    /\ df \in Datasets(AppsRows, MaxRows)
    /\ start_date = 0
    /\ end_date = 0
    /\ call = NoCall
    /\ result = NoResult
    /\ csv = NoFile
    /\ field_inputs = NoInputs
    /\ run = NoRun

NextApps == ComputeKpi("apps")

SpecApps == InitApps /\ [][NextApps]_vars

AppsDone == call.op = "compute_kpi" /\ call.name = "apps" /\ result.status = "ok"

\* the three measures of an input row
Measures(i) ==
    {df.rows[i].time_before_hrs, df.rows[i].time_after_hrs, df.rows[i].frequency_per_month}

\* what an input row adds to its month: nothing unless all its measures are numbers
Contribution ==
    [i \in 1 .. Len(df.rows) |->
        IF \A v \in Measures(i) : v.t = "num"
        THEN (df.rows[i].time_before_hrs.n - df.rows[i].time_after_hrs.n)
                 * df.rows[i].frequency_per_month.n
        ELSE 0]

\* the distinct months of the input
InputMonths == {df.rows[i].month : i \in {j \in 1 .. Len(df.rows) : df.rows[j].month.t = "date"}}

\* C20: the apps result has exactly one row per distinct month of the input,
\* and the row's total_saved is the sum over the month's input rows of
\* (time_before_hrs - time_after_hrs) * frequency_per_month, a row with a
\* missing or unparseable measure adding 0
C20_AppsMonthlyTotals ==
    AppsDone =>
        /\ Len(result.rows) = Cardinality(InputMonths)
        /\ {result.rows[k].month : k \in 1 .. Len(result.rows)} = InputMonths
        /\ \A k \in 1 .. Len(result.rows) :
              result.rows[k].total_saved
                  = Num(IntSum(Contribution, RowsOfMonth(result.rows[k].month)))

\* two apps of the first month, 9 h -> 1 h twice a month and one whose time
\* before is unreadable: the month's total is the 16 h of the first
C20_Witness ==
    /\ AppsDone
    /\ Len(df.rows) = 2
    /\ df.rows[1] = [month |-> Date(0), time_before_hrs |-> Num(9),
                     time_after_hrs |-> Num(1), frequency_per_month |-> Num(2)]
    /\ df.rows[2] = [month |-> Date(0), time_before_hrs |-> Txt,
                     time_after_hrs |-> Num(1), frequency_per_month |-> Num(3)]
    /\ Len(result.rows) = 1
    /\ result.rows[1].total_saved = Num(16)

----------------------------------------------------------------------------
(* The time-management aggregator: rows, order, totals and shares *)

\* the hours a raw category cell of input row i counts for
CategoryHours(i) == [n \in 1 .. Len(cats) |-> IntOf(df.rows[i][cats[n]])]

\* the sum of the percentage shares of an output row that are numbers
RECURSIVE PctSum(_, _)
PctSum(row, n) ==
    IF n = 0 THEN Num(0)
    ELSE LET v == row[pct_col(cats[n])]
         IN  FAdd(IF IsNum(v) THEN v ELSE Num(0), PctSum(row, n - 1))

\* output row `row` is the row computed from input row i
TimeRowOf(row, i) ==
    LET total == IntSum(CategoryHours(i), 1 .. Len(cats))
    IN  /\ row.week_start = df.rows[i].week_start
        /\ row.kw = df.rows[i].kw
        /\ row.total_hours = Num(total)
        /\ total > 0 =>
              /\ \A n \in 1 .. Len(cats) :
                    row[pct_col(cats[n])] =
                        IF IsNum(df.rows[i][cats[n]])
                        THEN Frac(100 * df.rows[i][cats[n]].n, total)
                        ELSE NaN
              /\ PctSum(row, Len(cats)) = Num(100)

----------------------------------------------------------------------------
(* The worklog details over a range longer than the moving-average window *)

\* the last day of the long range
MaxMaDay == 8

\* worklog rows closed on any day of the long range, or never
MaRows ==
    [type : {Str(bug)},
     id : {Num(1)},
     date_closed : {Date(n) : n \in 0 .. MaxMaDay} \cup {NaT},
     time_consumed : {Num(1)}]

InitWorklogMa ==
    /\ InitRegistry
    /\ df \in Datasets(MaRows, MaxRows)
    /\ start_date \in {0, 1}
    /\ end_date = MaxMaDay
    /\ call = NoCall
    /\ result = NoResult
    /\ csv = NoFile
    /\ field_inputs = NoInputs
    /\ run = NoRun

NextWorklogMa == WorklogDetails

SpecWorklogMa == InitWorklogMa /\ [][NextWorklogMa]_vars

\* the closures of the i-th day of the range (0-based), 0 for a day without any
ClosedOn(i) == Cardinality({j \in 1 .. Len(df.rows) : df.rows[j].date_closed = Date(start_date + i)})

\* the first day of the window that ends on the i-th day
WindowStart(i) == IF i - 6 > 0 THEN i - 6 ELSE 0

\* C22: for the i-th day of the range (0-based) closed_ma7 is the mean of the
\* closed counts of the days max(0, i - 6) .. i of the zero-filled series: days
\* without closures count 0 and the first six days average over fewer than
\* seven points
C22_TrailingMovingAverage ==
    WorklogDetailsDone =>
        LET daily == result.value.daily_counts
        IN  \A i \in 0 .. Len(daily) - 1 :
                daily[i + 1].closed_ma7 =
                    Frac(IntSum([j \in 0 .. i |-> ClosedOn(j)], WindowStart(i) .. i),
                         i - WindowStart(i) + 1)

\* closures on the first two days of the range 0 .. 8 only: the average is
\* 1 on both, 2/7 on the seventh day, 1/7 on the eighth (the first day has
\* left the window) and 0 on the ninth
C22_Witness ==
    /\ WorklogDetailsDone
    /\ start_date = 0
    /\ end_date = 8
    /\ Len(df.rows) = 2
    /\ {df.rows[1].date_closed, df.rows[2].date_closed} = {Date(0), Date(1)}
    /\ Len(result.value.daily_counts) = 9
    /\ result.value.daily_counts[1].closed_ma7 = Num(1)
    /\ result.value.daily_counts[2].closed_ma7 = Num(1)
    /\ result.value.daily_counts[7].closed_ma7 = Frac(2, 7)
    /\ result.value.daily_counts[8].closed_ma7 = Frac(1, 7)
    /\ result.value.daily_counts[9].closed_ma7 = Num(0)

----------------------------------------------------------------------------
(* The registry against the metadata table *)

\* the names in the registry
RegisteredNames == {KPI_FUNCTIONS[i].name : i \in 1 .. Len(KPI_FUNCTIONS)}

\* the metadata record get_kpi_meta returns for a name is complete
HasFullMeta(name) ==
    LET meta == get_kpi_meta(name).value
    IN  /\ DOMAIN meta = MetaFields
        /\ \A f \in MetaFields : meta[f] # ""

\* C23: once the module is loaded the registered names are exactly the keys of
\* the metadata table, the nine indicators; every name list_kpis returns has a
\* non-empty metadata record with display_name, unit, description and
\* source_csv, and compute_kpi with a metadata key reaches an aggregator, never
\* the unknown-indicator error
C23_RegistryMatchesMeta ==
    /\ RegisteredNames = DOMAIN KPI_META
    /\ RegisteredNames =
           {"apps", "data_collection", "mentoring", "ai_engagement", "project_mgmt",
            "tickets", "issues", "learning", "time_mgmt"}
    /\ call.op = "list_kpis" =>
           /\ {result.value[k] : k \in 1 .. Len(result.value)} = DOMAIN KPI_META
           /\ \A k \in 1 .. Len(result.value) : HasFullMeta(result.value[k])
    /\ (call.op = "compute_kpi" /\ call.name \in DOMAIN KPI_META) =>
           /\ call.func # ""
           /\ result.available = <<>>

\* list_kpis has returned the nine names, "issues" among them
C23_Witness ==
    /\ call.op = "list_kpis"
    /\ Len(result.value) = 9
    /\ \E k \in 1 .. 9 : result.value[k] = "issues"
    /\ HasFullMeta("issues")

----------------------------------------------------------------------------
(* app.py: one run of the dashboard script over the files of the data directory *)

\* KPIs that always show as top flag cards (order matters)
CRITICAL_KPIS ==
    <<"apps", "worklog", "data_collection", "mentoring", "project_mgmt", "time_mgmt",
      "learning">>

\* the elements of a list
Elements(s) == {s[i] : i \in 1 .. Len(s)}

\* [x for x in s if x in S]
RECURSIVE SelectIn(_, _)
SelectIn(s, S) ==
    IF s = <<>> THEN <<>>
    ELSE (IF Head(s) \in S THEN <<Head(s)>> ELSE <<>>) \o SelectIn(Tail(s), S)

\* app.KPI_META: the records of the listed names that have a non-empty record
app_KPI_META(reg) ==
    [k \in {n \in Elements(list_kpis(reg)) : get_kpi_meta(n).value # <<>>} |->
        get_kpi_meta(k).value]

DISPLAY_NAME_MAP(reg) ==
    [k \in DOMAIN app_KPI_META(reg) |-> app_KPI_META(reg)[k].display_name]

\* label -> key; the key of a label that is no display name is ""
INVERSE_DISPLAY_NAME_MAP(reg, label) ==
    IF \E k \in DOMAIN DISPLAY_NAME_MAP(reg) : DISPLAY_NAME_MAP(reg)[k] = label
    THEN CHOOSE k \in DOMAIN DISPLAY_NAME_MAP(reg) : DISPLAY_NAME_MAP(reg)[k] = label
    ELSE ""

\* data/*.csv discovery: the keys of the files whose key is a listed name
uploads(files, reg) == {key \in DOMAIN files : key \in Elements(list_kpis(reg))}

\* the options of the "Select KPIs to Display" multiselect
existing_kpi_labels(up, reg) ==
    {DISPLAY_NAME_MAP(reg)[k] : k \in up \cap DOMAIN DISPLAY_NAME_MAP(reg)}

\* the keys of the selected labels that have a file
selected_kpis(selected_labels, up, reg) ==
    LET keys == [i \in 1 .. Len(selected_labels) |->
                    INVERSE_DISPLAY_NAME_MAP(reg, selected_labels[i])]
    IN  SelectIn(keys, up)

\* the cards drawn for every pinned KPI, selected or not
flag_kpis_all_pinned(selected) == CRITICAL_KPIS

\* flag_kpis = [k for k in CRITICAL_KPIS if k in selected_kpis]
flag_kpis(selected) == SelectIn(CRITICAL_KPIS, Elements(selected))

\* the learning card from the aggregator's result lr
learning_card(lr, s, e) ==
    LET kept == month_range_filter(lr.rows, s, e)
    IN  IF lr.status = "raise" THEN lr
        ELSE IF Len(lr.rows) = 0 THEN Value([shown |-> "No records"])
        ELSE Value([shown |-> "Learning Efficiency", months |-> kept,
                    eff |-> IF "avg_efficiency" \in lr.cols
                            THEN MeanOf(kept, "avg_efficiency", 1 .. Len(kept))
                            ELSE Num(0),
                    roi |-> IF "avg_roi_time" \in lr.cols
                            THEN MeanOf(kept, "avg_roi_time", 1 .. Len(kept))
                            ELSE Num(0)])

\* the columns the learning details table takes from the aggregator's result
learning_table_columns ==
    <<"month", "learning_hrs_sum", "applied_hrs_sum", "applications_sum", "time_saved_sum",
      "avg_efficiency", "avg_roi_time", "avg_delta_pct", "application_rate_pw">>

\* frame[[columns]]: KeyError when a column is not in the frame
take_columns(res, columns, shown) ==
    LET missing == SelectIn(columns, Elements(columns) \ res.cols)
    IN  IF missing # <<>> THEN KeyError(missing[1])
        ELSE Value([shown |-> shown, columns |-> columns])

\* the "learning" branch of the details loop from the aggregator's result lr
learning_details(lr, s, e) ==
    IF lr.status = "raise" THEN lr
    ELSE IF Len(lr.rows) = 0 THEN Value([shown |-> "No records"])
    ELSE take_columns(lr, learning_table_columns, "Learning")

\* the "time_mgmt" branch of the details loop from the aggregator's result tm
time_mgmt_details(tm, s, e) ==
    LET kept == Filtered(tm.rows, [i \in 1 .. Len(tm.rows) |-> in_range(tm.rows[i].date, s, e)])
    IN  IF tm.status = "raise" THEN tm
        ELSE IF Len(tm.rows) = 0 THEN Value([shown |-> "No records"])
        ELSE IF "date" \notin tm.cols THEN KeyError("date")
        ELSE IF Len(kept) = 0 THEN Value([shown |-> "No daily time entries in selected range"])
        ELSE Value([shown |-> "Time Management", days |-> Len(kept)])

\* one pass of the cards loop for kpi, df_kpi being compute_kpi(kpi, df_raw)
flag_card(kpi, df_kpi, reg, df_raw, s, e) ==
    IF df_kpi.status = "raise" THEN df_kpi
    ELSE CASE kpi = "learning" -> learning_card(df_kpi, s, e)
           [] kpi = "time_mgmt" -> dev_focus_card(df_kpi, s, e)
           [] OTHER -> df_kpi

\* one pass of the details loop for kpi, d being compute_kpi(kpi, df_raw); the
\* worklog, mentoring and project_mgmt sections work on df_raw alone
details_section(kpi, d, df_raw, s, e) ==
    CASE kpi = "worklog" -> worklog_details(df_raw, s, e)
      [] kpi = "learning" -> learning_details(d, s, e)
      [] kpi = "time_mgmt" -> time_mgmt_details(d, s, e)
      [] kpi \in {"mentoring", "project_mgmt"} -> Value([shown |-> kpi])
      [] OTHER -> d

\* the sections that call compute_kpi
computes(kpi) == kpi \notin {"worklog", "mentoring", "project_mgmt"}

\* the row a file of the data directory repeats
FileRow ==
    [learning |->
        [date |-> Date(0), learning_hrs |-> Num(2), applied_hrs |-> Num(1),
         profit_over_legacy_pct |-> Num(5), time_saved_hrs |-> Num(4)],
     time_mgmt |->
        [week_start |-> Date(0), kw |-> Str(<<"K", "W">>), development |-> Num(2),
         debugging_tickets |-> Num(1), mentoring |-> Num(0), devops |-> Num(1),
         project_management |-> Num(0), meetings |-> Num(0)],
     tickets |-> [ticket_id |-> Num(101), date_closed |-> Date(0)],
     worklog |->
        [type |-> Str(bug), id |-> Num(1), date_closed |-> Date(0), time_consumed |-> Num(1)],
     notes |-> [text |-> Txt]]

\* the most rows a file of the data directory holds
MaxFileRows == 1

\* data/<key>.csv with n rows
FileOf(key, n) == DF(DOMAIN FileRow[key], [i \in 1 .. n |-> FileRow[key]])

\* the lists without repetition over S
Orders(S) == {s \in SeqsUpTo(S, Cardinality(S)) : \A i, j \in 1 .. Len(s) : s[i] = s[j] => i = j}

InitDashboard ==
    /\ InitRegistry
    /\ df = EmptyFrame
    /\ start_date = 0
    /\ end_date = LastDay
    /\ call = NoCall
    /\ result = NoResult
    /\ csv = NoFile
    /\ field_inputs = NoInputs
    /\ \E S \in SUBSET DOMAIN FileRow, n \in [DOMAIN FileRow -> 0 .. MaxFileRows] :
          run = [pc |-> "start", files |-> [k \in S |-> FileOf(k, n[k])], uploads |-> {},
                 selected_kpis |-> <<>>, flag_kpis |-> <<>>, detail_kpis |-> <<>>, idx |-> 0,
                 loaded |-> {}, computed |-> {}]

\* the CSV discovery at the top of the script
Discover ==
    /\ run.pc = "start"
    /\ run' = [run EXCEPT !.pc = "sidebar", !.uploads = uploads(run.files, KPI_FUNCTIONS)]
    /\ call' = [op |-> "discover", name |-> "", func |-> ""]
    /\ UNCHANGED <<KPI_FUNCTIONS, df, start_date, end_date, result, csv, field_inputs>>

\* the sidebar: the user's selection among the labels offered; with nothing
\* selected the script shows the reference table and stops
Select(selected_labels) ==
    LET selected == selected_kpis(selected_labels, run.uploads, KPI_FUNCTIONS)
    IN  /\ run.pc = "sidebar"
        /\ run' = IF selected = <<>> THEN [run EXCEPT !.pc = "stopped"]
                  ELSE [run EXCEPT !.pc = "cards", !.selected_kpis = selected,
                                   !.flag_kpis = flag_kpis(selected),
                                   !.detail_kpis = selected, !.idx = 1]
        /\ call' = [op |-> "select", name |-> "", func |-> ""]
        /\ UNCHANGED <<KPI_FUNCTIONS, df, start_date, end_date, result, csv, field_inputs>>

\* what a loop pass leaves: on an exception the script ends
Step(kpi, outcome, pc, called) ==
    /\ df' = run.files[kpi]
    /\ result' = outcome
    /\ run' = [run EXCEPT !.pc = IF outcome.status = "raise" THEN "failed" ELSE pc,
                          !.idx = run.idx + 1,
                          !.loaded = run.loaded \cup {kpi},
                          !.computed = IF called THEN run.computed \cup {kpi} ELSE run.computed]
    /\ UNCHANGED <<KPI_FUNCTIONS, start_date, end_date, csv, field_inputs>>

\* uploads[kpi] for a kpi without a file
NoUpload(kpi) ==
    /\ df' = df
    /\ result' = KeyError(kpi)
    /\ run' = [run EXCEPT !.pc = "failed"]
    /\ UNCHANGED <<KPI_FUNCTIONS, start_date, end_date, csv, field_inputs>>

\* one pass of the cards loop
FlagCard ==
    /\ run.pc = "cards"
    /\ run.idx <= Len(run.flag_kpis)
    /\ LET kpi == run.flag_kpis[run.idx]
       IN  /\ call' = [op |-> "card", name |-> kpi, func |-> dispatched(KPI_FUNCTIONS, kpi)]
           /\ IF kpi \notin run.uploads THEN NoUpload(kpi)
              ELSE Step(kpi,
                        flag_card(kpi, compute_kpi(KPI_FUNCTIONS, kpi, run.files[kpi]),
                                  KPI_FUNCTIONS, run.files[kpi], start_date, end_date),
                        "cards", TRUE)

\* st.header("Trends & Details"): the cards are drawn
CardsDone ==
    /\ run.pc = "cards"
    /\ run.idx > Len(run.flag_kpis)
    /\ run' = [run EXCEPT !.pc = "details", !.idx = 1]
    /\ call' = [op |-> "header", name |-> "", func |-> ""]
    /\ UNCHANGED <<KPI_FUNCTIONS, df, start_date, end_date, result, csv, field_inputs>>

\* one pass of the details loop
DetailsSection ==
    /\ run.pc = "details"
    /\ run.idx <= Len(run.detail_kpis)
    /\ LET kpi == run.detail_kpis[run.idx]
       IN  /\ call' = [op |-> "details", name |-> kpi, func |-> dispatched(KPI_FUNCTIONS, kpi)]
           /\ IF kpi \notin run.uploads THEN NoUpload(kpi)
              ELSE Step(kpi,
                        details_section(kpi,
                                        IF computes(kpi)
                                        THEN compute_kpi(KPI_FUNCTIONS, kpi, run.files[kpi])
                                        ELSE NoResult,
                                        run.files[kpi], start_date, end_date),
                        "details", computes(kpi))

\* the details are drawn: the script goes on to the append form
DetailsDone ==
    /\ run.pc = "details"
    /\ run.idx > Len(run.detail_kpis)
    /\ run' = [run EXCEPT !.pc = "form"]
    /\ call' = [op |-> "form", name |-> "", func |-> ""]
    /\ UNCHANGED <<KPI_FUNCTIONS, df, start_date, end_date, result, csv, field_inputs>>

NextDashboard ==
    \/ Discover
    \/ \E selected_labels \in Orders(existing_kpi_labels(run.uploads, KPI_FUNCTIONS)) :
           Select(selected_labels)
    \/ FlagCard
    \/ CardsDone
    \/ DetailsSection
    \/ DetailsDone

SpecDashboard == InitDashboard /\ [][NextDashboard]_vars

\* the result is compute_kpi's unknown-indicator error
UnknownIndicatorRaised == result.status = "raise" /\ result.available # <<>>

----------------------------------------------------------------------------
(* The date-range filter of the cards on monthly results *)

\* learning records on the first and second day of two months, or undated
MonthFilterLearningRows ==
    [date : {Date(0), Date(1), Date(DaysPerMonth), Date(DaysPerMonth + 1), NaT},
     learning_hrs : {Num(2)},
     applied_hrs : {Num(1)},
     profit_over_legacy_pct : {Num(5)}]

\* data_collection rows of two months, or of none
MonthFilterInfoRows ==
    [month : {Date(0), Date(DaysPerMonth), NaT},
     fields_before : {Num(50)},
     fields_after : {Num(100)}]

\* the "learning" branch of the cards loop
LearningCard ==
    /\ call' = [op |-> "card", name |-> "learning", func |-> ""]
    /\ result' = learning_card(compute_kpi(KPI_FUNCTIONS, "learning", df), start_date, end_date)
    /\ UNCHANGED <<KPI_FUNCTIONS, df, start_date, end_date, csv, field_inputs, run>>

InitMonthFilter ==
    /\ InitRegistry
    /\ df \in Datasets(MonthFilterLearningRows, MaxRows) \cup Datasets(MonthFilterInfoRows, MaxRows)
    /\ start_date \in 0 .. DaysPerMonth + 1
    /\ end_date \in DaysPerMonth - 1 .. DaysPerMonth + 1
    /\ call = NoCall
    /\ result = NoResult
    /\ csv = NoFile
    /\ field_inputs = NoInputs
    /\ run = NoRun

NextMonthFilter ==
    \/ "date" \in df.cols /\ LearningCard
    \/ "month" \in df.cols /\ HeadlineCard("data_collection")

SpecMonthFilter == InitMonthFilter /\ [][NextMonthFilter]_vars

\* a card that shows the months of its range
MonthlyCardShown ==
    /\ call.op = "card"
    /\ call.name \in {"learning", "data_collection"}
    /\ result.status = "ok"
    /\ result.value.shown # "No records"

\* the first days of the months that have a bucket: the months of the dated
\* records of the file
BucketMonths ==
    IF call.name = "learning"
    THEN {(df.rows[i].date.n \div DaysPerMonth) * DaysPerMonth :
              i \in {j \in 1 .. Len(df.rows) : df.rows[j].date.t = "date"}}
    ELSE {df.rows[i].month.n : i \in {j \in 1 .. Len(df.rows) : df.rows[j].month.t = "date"}}

\* C25: the cards' date-range filter keeps a monthly bucket if and only if the
\* first day of its month lies in [start_date, end_date], both bounds
\* included; a month whose first day is before start_date is dropped even
\* when its records lie in the range
C25_MonthFilterInclusive ==
    MonthlyCardShown =>
        LET months == result.value.months
        IN  /\ {months[k].month : k \in 1 .. Len(months)} =
                   {Date(m) : m \in {b \in BucketMonths : start_date <= b /\ b <= end_date}}
            /\ \A j, k \in 1 .. Len(months) : months[j].month = months[k].month => j = k

\* a record of day 1 and one of the first day of the next month, the range
\* running from day 1 to that first day: the first month is dropped though its
\* record is in range, the second is kept on the end bound
C25_Witness ==
    /\ MonthlyCardShown
    /\ call.name = "learning"
    /\ Len(df.rows) = 2
    /\ df.rows[1].date = Date(1)
    /\ df.rows[2].date = Date(DaysPerMonth)
    /\ start_date = 1
    /\ end_date = DaysPerMonth
    /\ Len(result.value.months) = 1
    /\ result.value.months[1].month = Date(DaysPerMonth)

----------------------------------------------------------------------------
(* The columns the dashboard reads from the aggregators' results *)

\* a card or a details section has been drawn from a file that holds rows
RenderedNonEmpty ==
    /\ run.pc # "none"
    /\ call.op \in {"card", "details"}
    /\ call.name \in run.uploads
    /\ Len(df.rows) > 0

\* the columns the aggregator registered under a name returns for the file
ProducedColumns(name) == compute_kpi(KPI_FUNCTIONS, name, df).cols

\* C26: every column the dashboard reads from an aggregator's result is in
\* that result: the time_mgmt result has the date column its card and details
\* filter on, the learning result has the eight columns of the learning
\* details, and drawing a selected KPI from a file with rows never fails on a
\* missing result column
C26_ResultColumnsProduced ==
    RenderedNonEmpty =>
        /\ call.name = "time_mgmt" => "date" \in ProducedColumns("time_mgmt")
        /\ call.name = "learning" =>
               Elements(learning_table_columns) \subseteq ProducedColumns("learning")
        /\ result.status = "ok"

====
